---- MODULE Spec2Model ----
(***************************************************************************)
(* Model of the bulk workbook generator of bulk-sheet-editor:              *)
(*   - the cell reference codec            (shared_state.rs)               *)
(*   - the streaming cell patcher          (bulk_create.rs update_sheet_xml)*)
(*   - the package assembler               (bulk_create.rs build_and_write) *)
(*   - the row materializers of the two ODS generation variants            *)
(*     (bulk_creation.rs, worksheet_generation.rs)                         *)
(*                                                                         *)
(* Text (a Rust String / &str) is a sequence of one-character strings.     *)
(* An XML body is the sequence of its lexical tokens, each token keeping   *)
(* what its bytes hold (name, attributes in order, text, and for a closing *)
(* tag whether white space follows the name).                              *)
(* Unsigned decimal numbers that are parsed from or formatted into text    *)
(* are kept as canonical decimal digit sequences ("Dec"), so that the      *)
(* 32-bit range of u32 is the real one.                                    *)
(***************************************************************************)
EXTENDS Integers, Sequences, FiniteSets, TLC

VARIABLES
    \* ---- update_sheet_xml, one event per step (SpecPatch) ----
    p_template,     \* template: &[u8], as tokens
    p_repl,         \* replacements: &BTreeMap<String, String>
    p_pos,          \* reader position (next token to read)
    p_open,         \* the reader's stack of open element names
    p_out,          \* writer buffer, as tokens
    p_src,          \* history: for each token of p_out the template token it copies (k)
                    \* or the template cell it replaces (-k)
    p_skip,         \* skip_depth
    p_pc            \* "start" | "loop" | "ok" | "err"

pvars == <<p_template, p_repl, p_pos, p_open, p_out, p_src, p_skip, p_pc>>

VARIABLES
    \* ---- BulkCreateModule::generate_and_save (Spec) ----
    state,            \* SharedState: csv_rows, odf_path, selected_sheet, cell_mappings,
                      \* last_output_path
    template_file,    \* the entries of the archive at odf_path
    dest,             \* the file at the output path
    dest0,            \* history: the file at the output path before the call
    module,           \* BulkCreateModule: save_path, status_message, error_message
    pc,               \* "idle" | "load" | "rows" | "create" | "write" | "return" | "done"
                      \* | "panic"
    opened,           \* the template archive has been opened
    context,          \* TemplateContext
    sheet_exports,    \* Vec<WorksheetExport>
    next_rel_index,   \* u32
    row_replacements, \* history: the replacement map built for each row
    result            \* Result<usize, String> of build_and_write

avars == <<state, template_file, dest, dest0, module, pc, opened, context,
           sheet_exports, next_rel_index, row_replacements, result>>

VARIABLES
    \* ---- the row materializers of the three generation paths (SpecVariants) ----
    v_path,       \* "bulk_create" | "bulk_creation" | "worksheet_generation"
    v_cells,      \* template_cells: Vec<CellPreview>
    v_mappings,   \* the column mappings
    v_rows,       \* csv_rows
    v_out,        \* what the path has built, one element per row
    v_pc          \* "run" | "done"

vvars == <<v_path, v_cells, v_mappings, v_rows, v_out, v_pc>>

\* the cell reference codec applied on its own (shared_state.rs)
VARIABLES
    c_from,       \* "address": encode, then decode; "text": decode alone
    c_address,    \* the (row, col) pair handed to the encoder
    c_cell,       \* the text handed to parse_cell_reference
    c_parsed,     \* what parse_cell_reference returned
    c_pc          \* "encode", "decode", "done", "panicked"
cvars == <<c_from, c_address, c_cell, c_parsed, c_pc>>

\* TemplateContext::load applied on its own (bulk_create.rs)
VARIABLES
    l_entries,     \* the entries of the template archive
    l_sheet_name,  \* the requested sheet name
    l_context,     \* Result<TemplateContext, String>
    l_pc           \* "load", "done"
lvars == <<l_entries, l_sheet_name, l_context, l_pc>>

\* BulkSheetEditorApp::update, one frame at a time (main.rs)
VARIABLES
    w_app,     \* the step modules: completed flags, the CSV step and its preview
    w_dark,    \* dark_theme
    w_click    \* the widget clicked in the latest frame
wvars == <<w_app, w_dark, w_click>>

\* the Generate Workbook step over several frames (bulk_create.rs)
VARIABLES
    s_state,      \* the SharedState fields the step reads and writes
    s_template,   \* the archive at odf_path
    s_module,     \* save_path, status_message, error_message
    s_last,       \* the latest operation: its kind, the chosen path, the result
    s_succeeded,  \* a generation has succeeded since the last reset
    s_pc          \* "frames", "panicked"
svars == <<s_state, s_template, s_module, s_last, s_succeeded, s_pc>>

\* the Select Template Worksheet step over several frames (odf_template.rs)
VARIABLES
    t_state,    \* WorkflowState: csv_preview, template_sheet_name, template_cells,
                \* column_mappings
    t_module,   \* OdfTemplateModule: selected_file, available_sheets, pending_cell,
                \* pending_column, status_message
    t_last,     \* the latest operation
    t_pc        \* "frames", "panicked"
tvars == <<t_state, t_module, t_last, t_pc>>

vars == <<pvars, avars, vvars, cvars, lvars, wvars, svars, tvars>>

\* the variables of the other machines, for each machine
rest_p == <<avars, vvars, cvars, lvars, wvars, svars, tvars>>
rest_a == <<pvars, vvars, cvars, lvars, wvars, svars, tvars>>
rest_v == <<pvars, avars, cvars, lvars, wvars, svars, tvars>>
rest_c == <<pvars, avars, vvars, lvars, wvars, svars, tvars>>
rest_l == <<pvars, avars, vvars, cvars, wvars, svars, tvars>>
rest_w == <<pvars, avars, vvars, cvars, lvars, svars, tvars>>
rest_s == <<pvars, avars, vvars, cvars, lvars, wvars, tvars>>
rest_t == <<pvars, avars, vvars, cvars, lvars, wvars, svars>>

-----------------------------------------------------------------------------
(* Bounds *)

\* number of cell fragments a template row is built from
MaxFragments == 2
\* the number of CSV data rows of a run
MaxRows == 2

-----------------------------------------------------------------------------
(* Text helpers *)

UpperAlphabet == <<"A","B","C","D","E","F","G","H","I","J","K","L","M",
                   "N","O","P","Q","R","S","T","U","V","W","X","Y","Z">>
LowerAlphabet == <<"a","b","c","d","e","f","g","h","i","j","k","l","m",
                   "n","o","p","q","r","s","t","u","v","w","x","y","z">>
DigitChars == <<"0","1","2","3","4","5","6","7","8","9">>

Range(s) == {s[i] : i \in DOMAIN s}
IndexOf(s, ch) == CHOOSE i \in DOMAIN s : s[i] = ch
Last(s) == s[Len(s)]
Front(s) == SubSeq(s, 1, Len(s) - 1)

is_ascii_alphabetic(ch) == ch \in Range(UpperAlphabet) \cup Range(LowerAlphabet)
is_ascii_digit(ch) == ch \in Range(DigitChars)
to_ascii_uppercase(ch) ==
    IF ch \in Range(LowerAlphabet) THEN UpperAlphabet[IndexOf(LowerAlphabet, ch)] ELSE ch
\* (ch.to_ascii_uppercase() as u8) - b'A' + 1
LetterValue(ch) == IndexOf(UpperAlphabet, to_ascii_uppercase(ch))
DigitValue(ch) == IndexOf(DigitChars, ch) - 1

\* str::replace(from, to) for a one-character pattern
RECURSIVE Replace(_, _, _)
Replace(s, from, to) ==
    IF s = <<>> THEN <<>>
    ELSE (IF Head(s) = from THEN to ELSE <<Head(s)>>) \o Replace(Tail(s), from, to)

\* the mutant escapes the ampersand last, re-escaping the entities written before it
xml_escape_AmpLast(value) ==
    Replace(Replace(Replace(Replace(Replace(value,
        "<", <<"&","l","t",";">>),
        ">", <<"&","g","t",";">>),
        "\"", <<"&","q","u","o","t",";">>),
        "'", <<"&","a","p","o","s",";">>),
        "&", <<"&","a","m","p",";">>)

xml_escape(value) ==
    Replace(Replace(Replace(Replace(Replace(value,
        "&", <<"&","a","m","p",";">>),
        "<", <<"&","l","t",";">>),
        ">", <<"&","g","t",";">>),
        "\"", <<"&","q","u","o","t",";">>),
        "'", <<"&","a","p","o","s",";">>)

-----------------------------------------------------------------------------
(* Decimal numbers as digit sequences *)

RECURSIVE StripZeros(_)
StripZeros(d) ==
    IF Len(d) > 1 /\ Head(d) = "0" THEN StripZeros(Tail(d)) ELSE d

\* lexicographic <= on digit sequences of equal length
RECURSIVE DigitsLeq(_, _)
DigitsLeq(a, b) ==
    IF a = <<>> THEN TRUE
    ELSE IF Head(a) # Head(b) THEN DigitValue(Head(a)) < DigitValue(Head(b))
    ELSE DigitsLeq(Tail(a), Tail(b))

\* <= on canonical decimals
DecLeq(a, b) ==
    IF Len(a) # Len(b) THEN Len(a) < Len(b) ELSE DigitsLeq(a, b)

DecMax(a, b) == IF DecLeq(a, b) THEN b ELSE a

\* a + 1 on a canonical decimal
RECURSIVE DecSucc(_)
DecSucc(d) ==
    IF d = <<>> THEN <<"1">>
    ELSE IF Last(d) = "9" THEN DecSucc(Front(d)) \o <<"0">>
    ELSE Front(d) \o <<DigitChars[DigitValue(Last(d)) + 2]>>

\* a - 1 on a canonical decimal greater than zero
RECURSIVE DecPredRaw(_)
DecPredRaw(d) ==
    IF Last(d) = "0" THEN DecPredRaw(Front(d)) \o <<"9">>
    ELSE Front(d) \o <<DigitChars[DigitValue(Last(d))]>>

\* u32::saturating_sub(1)
DecSaturatingPred(d) == IF d = <<"0">> THEN d ELSE StripZeros(DecPredRaw(d))

\* the canonical decimal of a small natural number (usize counters of the code)
RECURSIVE DecOf(_)
DecOf(n) == IF n < 10 THEN <<DigitChars[n + 1]>> ELSE DecOf(n \div 10) \o <<DigitChars[(n % 10) + 1]>>

U32_MAX == <<"4","2","9","4","9","6","7","2","9","5">>

\* str::parse::<u32>(): an optional '+', then one or more ASCII digits, value <= u32::MAX
ParseU32(s) ==
    LET body == IF s # <<>> /\ Head(s) = "+" THEN Tail(s) ELSE s
    IN  IF body = <<>> \/ \E i \in DOMAIN body : ~is_ascii_digit(body[i])
        THEN [ok |-> FALSE, value |-> <<"0">>]
        ELSE LET v == StripZeros(body)
             IN  IF DecLeq(v, U32_MAX) THEN [ok |-> TRUE, value |-> v]
                 ELSE [ok |-> FALSE, value |-> <<"0">>]

\* str::strip_prefix
HasPrefix(s, p) == Len(s) >= Len(p) /\ SubSeq(s, 1, Len(p)) = p
StripPrefix(s, p) == SubSeq(s, Len(p) + 1, Len(s))

-----------------------------------------------------------------------------
(* Cell reference codec (shared_state.rs) *)

\* A u32 column number is kept as its two 16-bit halves <<high, low>>, so
\* that the whole range of the type and its overflow are in the model.
Half == 65536
u32_of(n) == <<n \div Half, n % Half>>
u32_MAX == <<Half - 1, Half - 1>>

\* a * 26 + v in u32: the wrapped value, and whether the sum left the range
\* (a build with overflow checks panics there, one without them wraps)
MulAdd26(a, v) ==
    LET low  == a[2] * 26 + v
        high == a[1] * 26 + (low \div Half)
    IN  [value |-> <<high % Half, low % Half>>, overflow |-> high >= Half]

\* a + 1 in u32, likewise
AddOne(a) ==
    IF a[2] + 1 < Half THEN [value |-> <<a[1], a[2] + 1>>, overflow |-> FALSE]
    ELSE [value |-> <<(a[1] + 1) % Half, 0>>, overflow |-> a[1] + 1 >= Half]

\* a - 1 for a > 0
SubOne(a) == IF a[2] = 0 THEN <<a[1] - 1, Half - 1>> ELSE <<a[1], a[2] - 1>>

\* a / 26 and a % 26
Div26(a) == <<a[1] \div 26, ((a[1] % 26) * Half + a[2]) \div 26>>
Mod26(a) == ((a[1] % 26) * Half + a[2]) % 26

\* the for loop of parse_cell_reference over cell.chars(), from the state
\* [bad, col_index, row_part]; overflow records that col_index left the u32 range
RECURSIVE ScanCellChars(_, _)
ScanCellChars(cell, acc) ==
    IF cell = <<>> \/ acc.bad THEN acc
    ELSE LET ch == Head(cell)
         IN  IF is_ascii_alphabetic(ch)
             THEN LET sum == MulAdd26(acc.col_index, LetterValue(ch))
                  IN  ScanCellChars(Tail(cell),
                          [acc EXCEPT !.col_index = sum.value,
                                      !.overflow = acc.overflow \/ sum.overflow])
             ELSE IF is_ascii_digit(ch)
             THEN ScanCellChars(Tail(cell),
                      [acc EXCEPT !.row_part = Append(acc.row_part, ch)])
             ELSE [acc EXCEPT !.bad = TRUE]

NoAddress == [some |-> FALSE, row |-> <<"0">>, col |-> u32_of(0), overflow |-> FALSE]

\* Option<(u32, u32)>: row as a decimal, col as a u32. The result is the one
\* of a build without overflow checks; overflow tells that a build with them
\* panics instead of returning.
parse_cell_reference(cell) ==
    IF cell = <<>> THEN NoAddress
    ELSE LET acc == ScanCellChars(cell, [bad |-> FALSE, col_index |-> u32_of(0),
                                         row_part |-> <<>>, overflow |-> FALSE])
         IN  IF acc.bad THEN [NoAddress EXCEPT !.overflow = acc.overflow]
             ELSE IF acc.col_index = u32_of(0) \/ acc.row_part = <<>>
             THEN [NoAddress EXCEPT !.overflow = acc.overflow]
             ELSE LET parsed == ParseU32(acc.row_part)
                  IN  IF ~parsed.ok THEN [NoAddress EXCEPT !.overflow = acc.overflow]
                      ELSE [some |-> TRUE,
                            row  |-> DecSaturatingPred(parsed.value),
                            col  |-> SubOne(acc.col_index),
                            overflow |-> acc.overflow]

\* the while loop of column_label_from_index on idx
RECURSIVE ColumnLabelLoop(_, _)
ColumnLabelLoop(idx, label) ==
    IF idx # u32_of(0)
    THEN ColumnLabelLoop(Div26(SubOne(idx)),
                         <<UpperAlphabet[Mod26(SubOne(idx)) + 1]>> \o label)
    ELSE label

\* the label of a build without overflow checks; index + 1 leaves the range
\* for index = u32::MAX alone
column_label_from_index(index) == ColumnLabelLoop(AddOne(index).value, <<>>)

\* row + 1 as format! prints it, wrapped at u32::MAX
RowNumber(row) == IF row = U32_MAX THEN <<"0">> ELSE DecSucc(row)

\* format!("{}{}", column_label_from_index(col), row + 1)
CellLabel(row, col) == column_label_from_index(col) \o RowNumber(row)

\* whether one of the two additions of CellLabel leaves the u32 range
CellLabelOverflows(row, col) == row = U32_MAX \/ AddOne(col).overflow

-----------------------------------------------------------------------------
(* XML tokens and the quick-xml reader and writer *)

NoText == <<>>
Tok(k, name, attrs, text, ws) ==
    [k |-> k, name |-> name, attrs |-> attrs, text |-> text, ws |-> ws]
StartTag(name, attrs) == Tok("Start", name, attrs, NoText, FALSE)
EmptyTag(name, attrs) == Tok("Empty", name, attrs, NoText, FALSE)
EndTag(name)          == Tok("End", name, <<>>, NoText, FALSE)
\* a closing tag written with white space after its name: </row >
EndTagWs(name)        == Tok("End", name, <<>>, NoText, TRUE)
TextTok(text)         == Tok("Text", "", <<>>, text, FALSE)
OtherTok(k, text)     == Tok(k, "", <<>>, text, FALSE)
\* bytes the reader cannot lex as an event
BadTok                == Tok("Bad", "", <<>>, NoText, FALSE)

OtherKinds == {"Text", "Comment", "CData", "Decl", "PI", "DocType"}

\* reader.read_event_into: an error, or the event and the reader's new stack of
\* open elements. Closing tags are checked against the stack, and white space
\* after a closing tag's name is not part of the event.
ReadEvent(open, tok) ==
    CASE tok.k = "Bad" -> [err |-> TRUE, open |-> open, ev |-> tok]
      [] tok.k = "Start" -> [err |-> FALSE, open |-> Append(open, tok.name), ev |-> tok]
      [] tok.k = "End" ->
            IF open = <<>> \/ Last(open) # tok.name
            THEN [err |-> TRUE, open |-> open, ev |-> tok]
            ELSE [err |-> FALSE, open |-> Front(open), ev |-> EndTag(tok.name)]
      [] OTHER -> [err |-> FALSE, open |-> open, ev |-> tok]

\* every element closed by its own closing tag, nothing unlexable
RECURSIVE WellFormedFrom(_, _)
WellFormedFrom(body, open) ==
    IF body = <<>> THEN open = <<>>
    ELSE LET r == ReadEvent(open, Head(body))
         IN  ~r.err /\ WellFormedFrom(Tail(body), r.open)
WellFormed(body) == WellFormedFrom(body, <<>>)

\* attribute_value: the value of the first attribute named key
HasAttribute(event, key) == \E i \in DOMAIN event.attrs : event.attrs[i][1] = key
attribute_value(event, key) ==
    LET i == CHOOSE j \in DOMAIN event.attrs :
                 /\ event.attrs[j][1] = key
                 /\ \A h \in 1..(j - 1) : event.attrs[h][1] # key
    IN  event.attrs[i][2]

\* collect_cell_attributes: every attribute, in order, as (name, value)
collect_cell_attributes(event) == event.attrs

RECURSIVE DropAddressAndType(_)
DropAddressAndType(attrs) ==
    IF attrs = <<>> THEN <<>>
    ELSE (IF Head(attrs)[1] = "r" \/ Head(attrs)[1] = "t" THEN <<>> ELSE <<Head(attrs)>>)
         \o DropAddressAndType(Tail(attrs))

InlineStr == <<"i","n","l","i","n","e","S","t","r">>

\* the mutant writes the value as it is
write_replaced_cell_Raw(reference, value, attrs) ==
    <<StartTag("c", <<<<"r", reference>>>> \o DropAddressAndType(attrs) \o <<<<"t", InlineStr>>>>),
      StartTag("is", <<>>), StartTag("t", <<>>)>>
    \o (IF value = <<>> THEN <<>> ELSE <<TextTok(value)>>)
    \o <<EndTag("t"), EndTag("is"), EndTag("c")>>

\* write_replaced_cell: the tokens of the bytes it writes
write_replaced_cell(reference, value, attrs) ==
    <<StartTag("c", <<<<"r", reference>>>> \o DropAddressAndType(attrs) \o <<<<"t", InlineStr>>>>),
      StartTag("is", <<>>), StartTag("t", <<>>)>>
    \o (IF xml_escape(value) = <<>> THEN <<>> ELSE <<TextTok(xml_escape(value))>>)
    \o <<EndTag("t"), EndTag("is"), EndTag("c")>>

\* the condition of the two if-let chains: a c element whose r attribute text
\* is a key of the replacement map
IsReplacedCell(event, replacements) ==
    /\ event.name = "c"
    /\ HasAttribute(event, "r")
    /\ attribute_value(event, "r") \in DOMAIN replacements

-----------------------------------------------------------------------------
(* update_sheet_xml (bulk_create.rs): the match arms of its loop.          *)
(* Each arm gives the tokens it writes, the new skip_depth and what it did. *)

Arm(emit, skip, did) == [emit |-> emit, skip |-> skip, did |-> did]

\* the mutant writes the replacement and goes on without suppressing
OnStart_NoSkip(skip_depth, event, replacements) ==
    IF skip_depth > 0 THEN Arm(<<>>, skip_depth + 1, "drop")
    ELSE IF IsReplacedCell(event, replacements)
    THEN Arm(write_replaced_cell(attribute_value(event, "r"),
                                 replacements[attribute_value(event, "r")],
                                 collect_cell_attributes(event)),
             skip_depth, "replace")
    ELSE Arm(<<event>>, skip_depth, "emit")

\* Event::Start(event)
OnStart(skip_depth, event, replacements) ==
    IF skip_depth > 0 THEN Arm(<<>>, skip_depth + 1, "drop")
    ELSE IF IsReplacedCell(event, replacements)
    THEN Arm(write_replaced_cell(attribute_value(event, "r"),
                                 replacements[attribute_value(event, "r")],
                                 collect_cell_attributes(event)),
             1, "replace")
    ELSE Arm(<<event>>, skip_depth, "emit")

\* Event::Empty(event)
OnEmpty(skip_depth, event, replacements) ==
    IF skip_depth > 0 THEN Arm(<<>>, skip_depth, "drop")
    ELSE IF IsReplacedCell(event, replacements)
    THEN Arm(write_replaced_cell(attribute_value(event, "r"),
                                 replacements[attribute_value(event, "r")],
                                 collect_cell_attributes(event)),
             skip_depth, "replace")
    ELSE Arm(<<event>>, skip_depth, "emit")

\* the mutant leaves the suppressed region at the first closing c tag
OnEnd_AnyCellClose(skip_depth, event) ==
    IF skip_depth > 0
    THEN IF event.name = "c" THEN Arm(<<>>, 0, "drop")
         ELSE IF skip_depth > 1 THEN Arm(<<>>, skip_depth - 1, "drop")
         ELSE Arm(<<>>, skip_depth, "drop")
    ELSE Arm(<<event>>, skip_depth, "emit")

\* Event::End(event)
OnEnd(skip_depth, event) ==
    IF skip_depth > 0
    THEN IF skip_depth = 1 /\ event.name = "c" THEN Arm(<<>>, 0, "drop")
         ELSE IF skip_depth > 1 THEN Arm(<<>>, skip_depth - 1, "drop")
         ELSE Arm(<<>>, skip_depth, "drop")
    ELSE Arm(<<event>>, skip_depth, "emit")

\* the mutant has no arm for comments
OnOther_NoCommentArm(skip_depth, event) ==
    IF skip_depth > 0 \/ event.k = "Comment" THEN Arm(<<>>, skip_depth, "drop")
    ELSE Arm(<<event>>, skip_depth, "emit")

\* Event::Text, Comment, CData, Decl, PI, DocType
OnOther(skip_depth, event) ==
    IF skip_depth > 0 THEN Arm(<<>>, skip_depth, "drop")
    ELSE Arm(<<event>>, skip_depth, "emit")

OnEvent(skip_depth, event, replacements) ==
    CASE event.k = "Start" -> OnStart(skip_depth, event, replacements)
      [] event.k = "Empty" -> OnEmpty(skip_depth, event, replacements)
      [] event.k = "End"   -> OnEnd(skip_depth, event)
      [] OTHER             -> OnOther(skip_depth, event)

\* the mutant always takes the streaming pass
ReturnsTemplate_Never(replacements) == FALSE

\* if replacements.is_empty() { return Ok(template.to_vec()); }
ReturnsTemplate(replacements) == DOMAIN replacements = {}

\* the loop from reader state (rest, open) and writer state (out, skip_depth)
RECURSIVE PatchLoop(_, _, _, _, _)
PatchLoop(rest, open, out, skip_depth, replacements) ==
    IF rest = <<>> THEN [ok |-> TRUE, data |-> out]
    ELSE LET r == ReadEvent(open, Head(rest))
         IN  IF r.err THEN [ok |-> FALSE, data |-> <<>>]
             ELSE LET arm == OnEvent(skip_depth, r.ev, replacements)
                  IN  PatchLoop(Tail(rest), r.open, out \o arm.emit, arm.skip, replacements)

\* update_sheet_xml as a function: Result<Vec<u8>, String>
update_sheet_xml(template, replacements) ==
    IF ReturnsTemplate(replacements) THEN [ok |-> TRUE, data |-> template]
    ELSE PatchLoop(template, <<>>, <<>>, 0, replacements)

-----------------------------------------------------------------------------
(* Values of the variables a specification does not use *)

NoFile == [exists |-> FALSE, complete |-> FALSE, entries |-> <<>>]
NoResult == [ok |-> FALSE, count |-> 0, error |-> ""]
NoContext == [ok |-> FALSE, error |-> ""]

AsmParked ==
    /\ state = [csv_rows |-> <<>>, odf_path |-> FALSE, selected_sheet |-> <<>>,
                cell_mappings |-> <<>>, last_output_path |-> FALSE]
    /\ template_file = <<>>
    /\ dest = NoFile
    /\ dest0 = NoFile
    /\ module = [save_path |-> FALSE, status_message |-> <<>>, error_message |-> ""]
    /\ pc = "parked"
    /\ opened = FALSE
    /\ context = NoContext
    /\ sheet_exports = <<>>
    /\ next_rel_index = <<"0">>
    /\ row_replacements = <<>>
    /\ result = NoResult

VariantsParked ==
    /\ v_path = "parked"
    /\ v_cells = <<>>
    /\ v_mappings = <<>>
    /\ v_rows = <<>>
    /\ v_out = <<>>
    /\ v_pc = "parked"

CodecParked ==
    /\ c_from = "parked"
    /\ c_address = [row |-> <<"0">>, col |-> u32_of(0)]
    /\ c_cell = <<>>
    /\ c_parsed = NoAddress
    /\ c_pc = "parked"

LoadParked ==
    /\ l_entries = <<>>
    /\ l_sheet_name = <<>>
    /\ l_context = NoContext
    /\ l_pc = "parked"

WizardParked ==
    /\ w_app = <<>>
    /\ w_dark = FALSE
    /\ w_click = [kind |-> "parked", step |-> 0, path |-> ""]

StepParked ==
    /\ s_state = <<>>
    /\ s_template = <<>>
    /\ s_module = <<>>
    /\ s_last = <<>>
    /\ s_succeeded = FALSE
    /\ s_pc = "parked"

TemplateParked ==
    /\ t_state = <<>>
    /\ t_module = <<>>
    /\ t_last = ""
    /\ t_pc = "parked"

PatchParked ==
    /\ p_template = <<>>
    /\ p_repl = <<>>
    /\ p_pos = 1
    /\ p_open = <<>>
    /\ p_out = <<>>
    /\ p_src = <<>>
    /\ p_skip = 0
    /\ p_pc = "parked"

-----------------------------------------------------------------------------
(* Inputs of the patcher: worksheet bodies and replacement maps *)

A1 == <<"A","1">>
B1 == <<"B","1">>
C9 == <<"C","9">>
a1 == <<"a","1">>

Attr(key, value) == <<key, value>>

\* the pieces a row of the template is built from
Fragments ==
    { \* <c r="A1" s="1" t="s"><v>0</v></c>
      <<StartTag("c", <<Attr("r", A1), Attr("s", <<"1">>), Attr("t", <<"s">>)>>),
        StartTag("v", <<>>), TextTok(<<"0">>), EndTag("v"), EndTag("c")>>,
      \* <c r="B1"><v>y</v></c>
      <<StartTag("c", <<Attr("r", B1)>>),
        StartTag("v", <<>>), TextTok(<<"y">>), EndTag("v"), EndTag("c")>>,
      \* <c s="3" r="A1"/>
      <<EmptyTag("c", <<Attr("s", <<"3">>), Attr("r", A1)>>)>>,
      \* <c r="B1" t="s"/>
      <<EmptyTag("c", <<Attr("r", B1), Attr("t", <<"s">>)>>)>>,
      \* <c r="A1"><is><c r="B1"><x/></c></is><f>q</f></c>: a c nested in a cell
      <<StartTag("c", <<Attr("r", A1)>>), StartTag("is", <<>>),
        StartTag("c", <<Attr("r", B1)>>), EmptyTag("x", <<>>), EndTag("c"),
        EndTag("is"), StartTag("f", <<>>), TextTok(<<"q">>), EndTag("f"), EndTag("c")>>,
      \* <c r="a1"><v>z</v></c>: the address in lower case
      <<StartTag("c", <<Attr("r", a1)>>),
        StartTag("v", <<>>), TextTok(<<"z">>), EndTag("v"), EndTag("c")>>,
      \* <c s="2"/>: a cell without an address
      <<EmptyTag("c", <<Attr("s", <<"2">>)>>)>>,
      \* <d r="A1"/>: another element carrying an r attribute
      <<EmptyTag("d", <<Attr("r", A1)>>)>>,
      \* <!--k-->
      <<OtherTok("Comment", <<"k">>)>>,
      \* white space between cells
      <<TextTok(<<" ">>)>>,
      \* not well formed: bytes that are no markup
      <<BadTok>>,
      \* not well formed: a cell that is never closed
      <<StartTag("c", <<Attr("r", A1)>>), StartTag("v", <<>>)>>,
      \* not well formed: a closing tag of another name
      <<StartTag("c", <<Attr("r", B1)>>), EndTag("v")>> }

\* every concatenation of at most n fragments
RECURSIVE FragmentRuns(_)
FragmentRuns(n) ==
    IF n = 0 THEN {<<>>}
    ELSE LET shorter == FragmentRuns(n - 1)
         IN  shorter \cup {run \o f : run \in shorter, f \in Fragments}

\* a bare run of cells; a sheet with declaration, sheetData and row; the same
\* with a processing instruction, a DOCTYPE, CDATA and white space in closing tags
Wrap(kind, run) ==
    CASE kind = "bare" -> run
      [] kind = "sheet" ->
            <<OtherTok("Decl", <<"x","m","l">>), StartTag("sheetData", <<>>),
              StartTag("row", <<Attr("r", <<"1">>)>>)>>
            \o run \o <<EndTag("row"), EndTag("sheetData")>>
      [] kind = "spaced" ->
            <<OtherTok("PI", <<"p">>), OtherTok("DocType", <<"d">>),
              StartTag("row", <<Attr("r", <<"1">>)>>)>>
            \o run \o <<OtherTok("CData", <<"<">>), EndTagWs("row")>>

Templates == {Wrap(kind, run) : kind \in {"bare", "sheet", "spaced"},
                                run \in FragmentRuns(MaxFragments)}

V_new == <<"n","e","w">>
V_special == <<"<","&",">","\"","'","a">>
V_empty == <<>>

NoReplacements == [k \in {} |-> V_empty]
ReplacementMaps ==
    { NoReplacements,
      [k \in {A1} |-> V_new],
      [k \in {A1, B1} |-> IF k = A1 THEN V_special ELSE V_empty],
      [k \in {C9} |-> V_new] }

-----------------------------------------------------------------------------
(* update_sheet_xml run one event at a time *)

PatchInit ==
    /\ p_template \in Templates
    /\ p_repl \in ReplacementMaps
    /\ p_pos = 1
    /\ p_open = <<>>
    /\ p_out = <<>>
    /\ p_src = <<>>
    /\ p_skip = 0
    /\ p_pc = "start"
    /\ AsmParked
    /\ VariantsParked
    /\ CodecParked
    /\ LoadParked
    /\ WizardParked
    /\ StepParked
    /\ TemplateParked

\* lines 261-263
PatchReturnTemplate ==
    /\ p_pc = "start"
    /\ ReturnsTemplate(p_repl)
    /\ p_out' = p_template
    /\ p_src' = [i \in 1..Len(p_template) |-> i]
    /\ p_pc' = "ok"
    /\ UNCHANGED <<p_template, p_repl, p_pos, p_open, p_skip, rest_p>>

\* lines 265-269
PatchEnterLoop ==
    /\ p_pc = "start"
    /\ ~ReturnsTemplate(p_repl)
    /\ p_pc' = "loop"
    /\ UNCHANGED <<p_template, p_repl, p_pos, p_open, p_out, p_src, p_skip, rest_p>>

\* the reader returns an error: map_err(..)?
PatchReadError ==
    /\ p_pc = "loop"
    /\ p_pos <= Len(p_template)
    /\ ReadEvent(p_open, p_template[p_pos]).err
    /\ p_pc' = "err"
    /\ UNCHANGED <<p_template, p_repl, p_pos, p_open, p_out, p_src, p_skip, rest_p>>

\* Event::Eof => break; Ok(writer.into_inner())
PatchEof ==
    /\ p_pc = "loop"
    /\ p_pos > Len(p_template)
    /\ p_pc' = "ok"
    /\ UNCHANGED <<p_template, p_repl, p_pos, p_open, p_out, p_src, p_skip, rest_p>>

\* one turn of the loop on an event of the given kinds
PatchOn(kinds) ==
    /\ p_pc = "loop"
    /\ p_pos <= Len(p_template)
    /\ LET r == ReadEvent(p_open, p_template[p_pos])
       IN  /\ ~r.err
           /\ r.ev.k \in kinds
           /\ LET arm == OnEvent(p_skip, r.ev, p_repl)
              IN  /\ p_out' = p_out \o arm.emit
                  /\ p_src' = p_src \o [i \in 1..Len(arm.emit) |->
                                          IF arm.did = "replace" THEN 0 - p_pos ELSE p_pos]
                  /\ p_skip' = arm.skip
           /\ p_open' = r.open
    /\ p_pos' = p_pos + 1
    /\ UNCHANGED <<p_template, p_repl, p_pc, rest_p>>

PatchStart == PatchOn({"Start"})
PatchEmpty == PatchOn({"Empty"})
PatchEnd   == PatchOn({"End"})
PatchOther == PatchOn(OtherKinds)

PatchNext ==
    \/ PatchReturnTemplate
    \/ PatchEnterLoop
    \/ PatchReadError
    \/ PatchEof
    \/ PatchStart
    \/ PatchEmpty
    \/ PatchEnd
    \/ PatchOther

SpecPatch == PatchInit /\ [][PatchNext]_vars

-----------------------------------------------------------------------------
(* The element structure of a body, used to state the patcher's claims *)

\* opening tags minus closing tags among tokens i..j
RECURSIVE Balance(_, _, _)
Balance(body, i, j) ==
    IF i > j THEN 0
    ELSE (CASE body[j].k = "Start" -> 1 [] body[j].k = "End" -> -1 [] OTHER -> 0)
         + Balance(body, i, j - 1)

\* the position of the closing tag matching the opening tag at i
\* (one past the end when it is never closed); i itself for a self-closed element
MatchEnd(body, i) ==
    IF body[i].k # "Start" THEN i
    ELSE LET closes == {j \in (i + 1)..Len(body) : Balance(body, i, j) = 0}
         IN  IF closes = {} THEN Len(body) + 1
             ELSE CHOOSE j \in closes : \A h \in closes : j <= h

\* token i opens (or is) a cell node whose address is a key of the map
IsReplacedAt(body, repl, i) ==
    /\ body[i].k \in {"Start", "Empty"}
    /\ IsReplacedCell(body[i], repl)

\* token k lies inside a replaced cell that starts before it
Covered(body, repl, k) ==
    \E i \in 1..(k - 1) : IsReplacedAt(body, repl, i) /\ k <= MatchEnd(body, i)

\* token i opens (or is) a replaced cell node that is not inside another one
TopReplaced(body, repl, i) == IsReplacedAt(body, repl, i) /\ ~Covered(body, repl, i)

\* token k belongs to no replaced cell node
Outside(body, repl, k) == ~IsReplacedAt(body, repl, k) /\ ~Covered(body, repl, k)

\* the nesting depth inside a replaced cell after token n has been read
\* (0 when token n is outside every replaced cell or closes one)
DepthAfter(body, repl, n) ==
    LET tops == {i \in 1..n : TopReplaced(body, repl, i) /\ n < MatchEnd(body, i)}
    IN  IF tops = {} THEN 0
        ELSE Balance(body, CHOOSE i \in tops : TRUE, n)

Abs(n) == IF n < 0 THEN 0 - n ELSE n
\* the positions of p_out that came from template token k (as a copy or a replacement)
OutputOf(k) == {idx \in DOMAIN p_src : Abs(p_src[idx]) = k}
Processed == 1..(p_pos - 1)
Patching == p_pc \in {"loop", "ok"} /\ ~ReturnsTemplate(p_repl)

NotAddressOrType(attr) == attr[1] \notin {"r", "t"}

Entities ==
    { <<"&", <<"&","a","m","p",";">> >>, <<"<", <<"&","l","t",";">> >>,
      <<">", <<"&","g","t",";">> >>, <<"\"", <<"&","q","u","o","t",";">> >>,
      <<"'", <<"&","a","p","o","s",";">> >> }

\* what an XML reader gets from character data: every entity replaced by its
\* character; <<"?">> marks data that is not valid escaped text
RECURSIVE Unescape(_)
Unescape(s) ==
    IF s = <<>> THEN <<>>
    ELSE IF Head(s) \in {"<", ">", "\"", "'"} THEN <<"?">>
    ELSE IF Head(s) = "&"
    THEN LET hits == {e \in Entities : HasPrefix(s, e[2])}
         IN  IF hits = {} THEN <<"?">>
             ELSE LET e == CHOOSE x \in hits : TRUE
                  IN  <<e[1]>> \o Unescape(StripPrefix(s, e[2]))
    ELSE <<Head(s)>> \o Unescape(Tail(s))

-----------------------------------------------------------------------------
(* Claims about update_sheet_xml, checked under SpecPatch *)

\* C4: with an empty replacement map update_sheet_xml returns Ok with a body
\* identical to the template, for every template (well formed or not), and the
\* reader never reads a token of it.
C4_EmptyMapReturnsTemplate ==
    (DOMAIN p_repl = {} /\ p_pc # "start") =>
        /\ p_pc = "ok"
        /\ p_out = p_template
        /\ p_pos = 1 /\ p_open = <<>>
        /\ update_sheet_xml(p_template, p_repl) = [ok |-> TRUE, data |-> p_template]

\* the empty map has been applied to a body that is not well formed and to one
\* whose closing tag a re-serialization would rewrite
C4_Witness ==
    /\ DOMAIN p_repl = {} /\ p_pc = "ok"
    /\ ~WellFormed(p_template)
    /\ \E k \in DOMAIN p_template : p_template[k].k = "End" /\ p_template[k].ws

\* C5: patching a well-formed template with a non-empty map, every token read
\* so far that belongs to no replaced cell is in the output exactly once, with
\* the same kind, name, attributes (in order) and content, and these tokens
\* keep their relative order.
C5_OutsideUnchanged ==
    (Patching /\ WellFormed(p_template)) =>
        /\ \A k \in Processed :
              Outside(p_template, p_repl, k) =>
                 /\ Cardinality(OutputOf(k)) = 1
                 /\ \A idx \in OutputOf(k) :
                       /\ p_src[idx] = k
                       /\ p_out[idx].k = p_template[k].k
                       /\ p_out[idx].name = p_template[k].name
                       /\ p_out[idx].attrs = p_template[k].attrs
                       /\ p_out[idx].text = p_template[k].text
        /\ \A x, y \in DOMAIN p_src : x < y => Abs(p_src[x]) <= Abs(p_src[y])

\* cell A1 has been replaced while a cell B1 and a processing instruction were not
C5_Witness ==
    /\ Patching /\ p_pc = "ok" /\ WellFormed(p_template)
    /\ \E i \in Processed : TopReplaced(p_template, p_repl, i)
    /\ \E k \in Processed :
          /\ Outside(p_template, p_repl, k)
          /\ p_template[k].k = "Start" /\ p_template[k].name = "c"
          /\ p_template[k].attrs = <<Attr("r", B1)>>
    /\ \E k \in Processed :
          Outside(p_template, p_repl, k) /\ p_template[k].k = "PI"

\* C6: for every cell node of the template read so far whose address is in the
\* map (and that is not inside another replaced cell) the output holds, in its
\* place, one cell node: the same r, then the original attributes other than r
\* and t in their order, then t="inlineStr", and <is><t>text</t></is> whose text
\* is the replacement value with & < > " ' escaped; no token of the original
\* node's content is in the output.
C6_ReplacedCell ==
    Patching =>
        \A i \in Processed :
            TopReplaced(p_template, p_repl, i) =>
                LET at    == OutputOf(i)
                    first == CHOOSE x \in at : \A y \in at : x <= y
                    n     == Cardinality(at)
                    cell  == p_out[first]
                    value == p_repl[attribute_value(p_template[i], "r")]
                    text  == IF n = 7 THEN p_out[first + 3].text ELSE <<>>
                IN  /\ n \in {6, 7}
                    /\ at = first..(first + n - 1)
                    /\ \A x \in at : p_src[x] = 0 - i
                    /\ cell.k = "Start" /\ cell.name = "c"
                    /\ Head(cell.attrs) = Attr("r", attribute_value(p_template[i], "r"))
                    /\ Last(cell.attrs) = Attr("t", InlineStr)
                    /\ SelectSeq(cell.attrs, NotAddressOrType)
                          = SelectSeq(p_template[i].attrs, NotAddressOrType)
                    /\ Len(cell.attrs) = 2 + Len(SelectSeq(cell.attrs, NotAddressOrType))
                    /\ p_out[first + 1] = StartTag("is", <<>>)
                    /\ p_out[first + 2] = StartTag("t", <<>>)
                    /\ n = 7 => p_out[first + 3].k = "Text" /\ text # <<>>
                    /\ Unescape(text) = value
                    /\ SubSeq(p_out, first + n - 3, first + n - 1)
                          = <<EndTag("t"), EndTag("is"), EndTag("c")>>
                    /\ \A k \in (i + 1)..Len(p_template) :
                          k <= MatchEnd(p_template, i) => OutputOf(k) = {}

\* an open/close cell with s, t and children and a self-closed cell have both
\* been replaced, one of them by a value holding all five special characters
C6_Witness ==
    /\ Patching /\ p_pc = "ok"
    /\ \E i, j \in Processed :
          /\ TopReplaced(p_template, p_repl, i) /\ TopReplaced(p_template, p_repl, j)
          /\ p_template[i].k = "Start" /\ HasAttribute(p_template[i], "s")
          /\ HasAttribute(p_template[i], "t") /\ MatchEnd(p_template, i) > i + 1
          /\ p_template[j].k = "Empty"
          /\ p_repl[attribute_value(p_template[i], "r")] = V_special

\* C7: after every token read, skip_depth is the nesting depth inside the
\* replaced cell being suppressed (opening tags raise it, closing tags lower it,
\* self-closed elements leave it), 0 outside; no token read at a positive depth
\* is emitted; and for a well-formed template skip_depth is 0 at the end of the
\* input and the node after each replaced cell is emitted.
C7_SkipDepth ==
    Patching =>
        /\ p_skip = DepthAfter(p_template, p_repl, p_pos - 1)
        /\ \A k \in Processed :
              (k > 1 /\ DepthAfter(p_template, p_repl, k - 1) > 0) => OutputOf(k) = {}
        /\ (WellFormed(p_template) /\ p_pc = "ok") =>
              /\ p_skip = 0
              /\ \A i \in Processed :
                    (TopReplaced(p_template, p_repl, i)
                        /\ MatchEnd(p_template, i) < Len(p_template))
                    => OutputOf(MatchEnd(p_template, i) + 1) # {}

\* a replaced cell holding a nested c element and a self-closed child was
\* suppressed in a well-formed template, and a node follows it
C7_Witness ==
    /\ Patching /\ p_pc = "ok" /\ WellFormed(p_template) /\ p_skip = 0
    /\ \E i \in Processed :
          /\ TopReplaced(p_template, p_repl, i)
          /\ MatchEnd(p_template, i) < Len(p_template)
          /\ \E k, e \in (i + 1)..(MatchEnd(p_template, i) - 1) :
                /\ p_template[k].k = "Start" /\ p_template[k].name = "c"
                /\ p_template[e].k = "Empty"
                /\ DepthAfter(p_template, p_repl, k) = 3

-----------------------------------------------------------------------------
(* The template package (bulk_create.rs TemplateContext)                    *)
(* A part name is a path: the sequence of its segments. An archive is a     *)
(* sequence of entries [name, data], data being a token sequence.           *)

Entry(name, data) == [name |-> name, data |-> data]
HasEntry(archive, name) == \E i \in DOMAIN archive : archive[i].name = name
\* BTreeMap::get
GetEntry(archive, name) ==
    archive[CHOOSE i \in DOMAIN archive : archive[i].name = name].data

P_ContentTypes == <<"[Content_Types].xml">>
P_RootRels     == <<"_rels", ".rels">>
P_AppDoc       == <<"docProps", "app.xml">>
P_CoreDoc      == <<"docProps", "core.xml">>
P_Workbook     == <<"xl", "workbook.xml">>
P_WorkbookRels == <<"xl", "_rels", "workbook.xml.rels">>

\* name.starts_with("xl/worksheets/")
StartsWithXlWorksheets(name) ==
    Len(name) >= 3 /\ name[1] = "xl" /\ name[2] = "worksheets"

\* the mutant copies the template's parts under xl/worksheets/ too
should_skip_entry_KeepsWorksheets(name) ==
    name \in {P_ContentTypes, P_RootRels, P_AppDoc, P_CoreDoc, P_Workbook, P_WorkbookRels}

should_skip_entry(name) ==
    \/ name = P_ContentTypes
    \/ name = P_RootRels
    \/ name = P_AppDoc
    \/ name = P_CoreDoc
    \/ name = P_Workbook
    \/ name = P_WorkbookRels
    \/ StartsWithXlWorksheets(name)

\* target.rsplit_once('/') and format!("{}/_rels/{}.rels", folder, file)
HasRelationshipPath(target) == Len(target) >= 2
sheet_relationship_path(target) ==
    Front(target) \o <<"_rels", Last(target) \o ".rels">>

\* part_name.contains("/xl/worksheets/"), the part name being a path whose
\* first segment is empty when the name starts with a slash
ContainsXlWorksheets(part_name) ==
    \E i \in 2..(Len(part_name) - 2) :
        part_name[i] = "xl" /\ part_name[i + 1] = "worksheets"

\* kind.ends_with("/worksheet"), the type being a path
EndsWithWorksheet(kind) == Len(kind) >= 2 /\ Last(kind) = "worksheet"

RelPrefix == <<"r","I","d">>
T_Worksheet == <<"http://schemas.openxmlformats.org", "officeDocument", "2006",
                 "relationships", "worksheet">>
CT_Worksheet == "application/vnd.openxmlformats-officedocument.spreadsheetml.worksheet+xml"

WorkbookRelationship(id, target, type_attr) ==
    [id |-> id, target |-> target, type_attr |-> type_attr]

\* the last value of the attribute named key (the attribute loops overwrite)
LastAttribute(event, key) ==
    LET i == CHOOSE j \in DOMAIN event.attrs :
                 /\ event.attrs[j][1] = key
                 /\ \A h \in (j + 1)..Len(event.attrs) : event.attrs[h][1] # key
    IN  event.attrs[i][2]

\* parse_sheet_mapping: the loop, from the reader state and template_rel
\* (<<>> for None, <<rel>> for Some(rel))
RECURSIVE SheetMappingLoop(_, _, _, _)
SheetMappingLoop(rest, open, template_rel, sheet_name) ==
    IF rest = <<>> THEN [err |-> FALSE, rel |-> template_rel]
    ELSE LET r == ReadEvent(open, Head(rest))
         IN  IF r.err THEN [err |-> TRUE, rel |-> <<>>]
             ELSE IF /\ r.ev.k = "Empty" /\ r.ev.name = "sheet"
                     /\ HasAttribute(r.ev, "name")
                     /\ LastAttribute(r.ev, "name") = sheet_name
                     /\ HasAttribute(r.ev, "r:id")
             THEN SheetMappingLoop(Tail(rest), r.open,
                                   <<LastAttribute(r.ev, "r:id")>>, sheet_name)
             ELSE SheetMappingLoop(Tail(rest), r.open, template_rel, sheet_name)

E_Xml == "XML error"
E_SheetNotFound == "Template sheet not found"
E_RelationshipMissing == "Template sheet relationship missing"

\* Result<String, String>
parse_sheet_mapping(workbook_xml, sheet_name) ==
    LET r == SheetMappingLoop(workbook_xml, <<>>, <<>>, sheet_name)
    IN  IF r.err THEN [ok |-> FALSE, error |-> E_Xml, rel |-> <<>>]
        ELSE IF r.rel = <<>> THEN [ok |-> FALSE, error |-> E_SheetNotFound, rel |-> <<>>]
        ELSE [ok |-> TRUE, error |-> "", rel |-> r.rel[1]]

\* the attribute loop of parse_workbook_relationships on max_id: every Id
\* attribute of the form rId<u32> raises it
RECURSIVE MaxIdOverAttrs(_, _)
MaxIdOverAttrs(attrs, max_id) ==
    IF attrs = <<>> THEN max_id
    ELSE LET key == Head(attrs)[1]
             value == Head(attrs)[2]
         IN  IF key = "Id" /\ HasPrefix(value, RelPrefix)
                /\ ParseU32(StripPrefix(value, RelPrefix)).ok
             THEN MaxIdOverAttrs(Tail(attrs),
                      DecMax(max_id, ParseU32(StripPrefix(value, RelPrefix)).value))
             ELSE MaxIdOverAttrs(Tail(attrs), max_id)

\* parse_workbook_relationships: the loop, from the reader state and
\* acc = [template_target (<<>> or <<target>>), preserved, max_id]
RECURSIVE RelationshipsLoop(_, _, _, _)
RelationshipsLoop(rest, open, acc, template_rel_id) ==
    IF rest = <<>> THEN [err |-> "", acc |-> acc]
    ELSE LET r == ReadEvent(open, Head(rest))
         IN  IF r.err THEN [err |-> E_Xml, acc |-> acc]
             ELSE IF r.ev.k = "Empty" /\ r.ev.name = "Relationship"
             THEN LET max_id == MaxIdOverAttrs(r.ev.attrs, acc.max_id)
                  IN  IF ~HasAttribute(r.ev, "Id")
                      THEN [err |-> "Relationship id missing", acc |-> acc]
                      ELSE IF ~HasAttribute(r.ev, "Target")
                      THEN [err |-> "Relationship target missing", acc |-> acc]
                      ELSE IF ~HasAttribute(r.ev, "Type")
                      THEN [err |-> "Relationship type missing", acc |-> acc]
                      ELSE LET id == LastAttribute(r.ev, "Id")
                               target == LastAttribute(r.ev, "Target")
                               kind == LastAttribute(r.ev, "Type")
                           IN  RelationshipsLoop(Tail(rest), r.open,
                                 IF EndsWithWorksheet(kind)
                                 THEN IF id = template_rel_id
                                      THEN [acc EXCEPT !.max_id = max_id,
                                                       !.template_target = <<target>>]
                                      ELSE [acc EXCEPT !.max_id = max_id]
                                 ELSE [acc EXCEPT !.max_id = max_id,
                                           !.preserved = Append(acc.preserved,
                                               WorkbookRelationship(id, target, kind))],
                                 template_rel_id)
             ELSE RelationshipsLoop(Tail(rest), r.open, acc, template_rel_id)

\* Result<(String, Vec<WorkbookRelationship>, u32), String>
parse_workbook_relationships(xml, template_rel_id) ==
    LET r == RelationshipsLoop(xml, <<>>,
                 [template_target |-> <<>>, preserved |-> <<>>, max_id |-> <<"0">>],
                 template_rel_id)
    IN  IF r.err # "" THEN [ok |-> FALSE, error |-> r.err]
        ELSE IF r.acc.template_target = <<>>
        THEN [ok |-> FALSE, error |-> E_RelationshipMissing]
        ELSE [ok |-> TRUE, error |-> "",
              target |-> r.acc.template_target[1],
              preserved |-> r.acc.preserved,
              max_id |-> r.acc.max_id]

\* TemplateContext::load on the entries read from the archive
TemplateContextLoad(entries, sheet_name) ==
    IF ~HasEntry(entries, P_ContentTypes)
    THEN [ok |-> FALSE, error |-> "Workbook content types missing"]
    ELSE IF ~HasEntry(entries, P_Workbook)
    THEN [ok |-> FALSE, error |-> "Workbook definition missing"]
    ELSE IF ~HasEntry(entries, P_WorkbookRels)
    THEN [ok |-> FALSE, error |-> "Workbook relationships missing"]
    ELSE LET mapping == parse_sheet_mapping(GetEntry(entries, P_Workbook), sheet_name)
         IN  IF ~mapping.ok THEN [ok |-> FALSE, error |-> mapping.error]
             ELSE LET rels == parse_workbook_relationships(
                                  GetEntry(entries, P_WorkbookRels), mapping.rel)
                  IN  IF ~rels.ok THEN [ok |-> FALSE, error |-> rels.error]
                      ELSE IF ~HasEntry(entries, <<"xl">> \o rels.target)
                      THEN [ok |-> FALSE, error |-> "Template sheet XML missing"]
                      ELSE [ok |-> TRUE, error |-> "",
                            entries |-> entries,
                            content_types_xml |-> GetEntry(entries, P_ContentTypes),
                            preserved_relationships |-> rels.preserved,
                            next_relationship_index |-> rels.max_id,
                            template_sheet_xml |-> GetEntry(entries, <<"xl">> \o rels.target),
                            template_sheet_relationship |->
                                IF /\ HasRelationshipPath(rels.target)
                                   /\ HasEntry(entries,
                                        <<"xl">> \o sheet_relationship_path(rels.target))
                                THEN <<GetEntry(entries,
                                        <<"xl">> \o sheet_relationship_path(rels.target))>>
                                ELSE <<>>]

-----------------------------------------------------------------------------
(* Row materializer and package writers (bulk_create.rs) *)

\* the mutant does not trim
IsBlank_EmptyOnly(text) == text = <<>>

\* mapping.cell_ref.trim().is_empty()
IsBlank(text) == \A i \in DOMAIN text : text[i] = " "

CellMapping(column_index, cell_ref) ==
    [column_index |-> column_index, cell_ref |-> cell_ref]

\* lines 78-83: the mappings whose cell_ref is not blank
RECURSIVE NonBlankMappings(_)
NonBlankMappings(cell_mappings) ==
    IF cell_mappings = <<>> THEN <<>>
    ELSE (IF IsBlank(Head(cell_mappings).cell_ref) THEN <<>> ELSE <<Head(cell_mappings)>>)
         \o NonBlankMappings(Tail(cell_mappings))

\* BTreeMap::insert
MapInsert(map, key, value) ==
    [k \in DOMAIN map \cup {key} |-> IF k = key THEN value ELSE map[k]]

\* the mutant keeps the first value inserted for a label
RowReplacements_FirstWins(mappings, row_values, replacements) ==
    LET RECURSIVE Go(_, _)
        Go(ms, map) ==
            IF ms = <<>> THEN map
            ELSE LET mapping == Head(ms)
                     parsed == parse_cell_reference(mapping.cell_ref)
                 IN  IF parsed.some /\ mapping.column_index < Len(row_values)
                        /\ CellLabel(parsed.row, parsed.col) \notin DOMAIN map
                     THEN Go(Tail(ms), MapInsert(map, CellLabel(parsed.row, parsed.col),
                                                 row_values[mapping.column_index + 1]))
                     ELSE Go(Tail(ms), map)
    IN  Go(mappings, replacements)

\* the mutant gives a mapping whose column the row does not have the empty value
RowReplacements_DefaultValue(mappings, row_values, replacements) ==
    LET RECURSIVE Go(_, _)
        Go(ms, map) ==
            IF ms = <<>> THEN map
            ELSE LET mapping == Head(ms)
                     parsed == parse_cell_reference(mapping.cell_ref)
                 IN  IF parsed.some
                     THEN Go(Tail(ms), MapInsert(map, CellLabel(parsed.row, parsed.col),
                                 IF mapping.column_index < Len(row_values)
                                 THEN row_values[mapping.column_index + 1] ELSE <<>>))
                     ELSE Go(Tail(ms), map)
    IN  Go(mappings, replacements)

\* lines 99-107: the inner loop over the mappings, from the map built so far
RECURSIVE RowReplacements(_, _, _)
RowReplacements(mappings, row_values, replacements) ==
    IF mappings = <<>> THEN replacements
    ELSE LET mapping == Head(mappings)
             parsed == parse_cell_reference(mapping.cell_ref)
         IN  IF parsed.some /\ mapping.column_index < Len(row_values)
             THEN RowReplacements(Tail(mappings), row_values,
                      MapInsert(replacements, CellLabel(parsed.row, parsed.col),
                                row_values[mapping.column_index + 1]))
             ELSE RowReplacements(Tail(mappings), row_values, replacements)

\* the characters of a text joined into one string
RECURSIVE Join(_)
Join(text) == IF text = <<>> THEN "" ELSE Head(text) \o Join(Tail(text))

\* format!("worksheets/sheet{}.xml", n)
SheetTarget(n) == <<"worksheets", "sheet" \o Join(DecOf(n)) \o ".xml">>

WorksheetExport(name, relationship_id, target, sheet_id, data, relationship_part) ==
    [name |-> name, relationship_id |-> relationship_id, target |-> target,
     sheet_id |-> sheet_id, data |-> data, relationship_part |-> relationship_part]

XmlDecl == OtherTok("Decl", <<"x","m","l">>)

\* xml_escape on a path or media type of the model, none of which holds a
\* character that xml_escape replaces
EscapePath(path) == path

RECURSIVE SheetElements(_)
SheetElements(sheets) ==
    IF sheets = <<>> THEN <<>>
    ELSE <<EmptyTag("sheet", <<Attr("name", xml_escape(Head(sheets).name)),
                               Attr("sheetId", Head(sheets).sheet_id),
                               Attr("r:id", Head(sheets).relationship_id)>>)>>
         \o SheetElements(Tail(sheets))

build_workbook_xml(sheets) ==
    <<XmlDecl, StartTag("workbook", <<>>), StartTag("sheets", <<>>)>>
    \o SheetElements(sheets)
    \o <<EndTag("sheets"), EndTag("workbook")>>

RECURSIVE PreservedElements(_)
PreservedElements(preserved) ==
    IF preserved = <<>> THEN <<>>
    ELSE <<EmptyTag("Relationship",
               <<Attr("Id", xml_escape(Head(preserved).id)),
                 Attr("Type", EscapePath(Head(preserved).type_attr)),
                 Attr("Target", EscapePath(Head(preserved).target))>>)>>
         \o PreservedElements(Tail(preserved))

RECURSIVE SheetRelationshipElements(_)
SheetRelationshipElements(sheets) ==
    IF sheets = <<>> THEN <<>>
    ELSE <<EmptyTag("Relationship",
               <<Attr("Id", xml_escape(Head(sheets).relationship_id)),
                 Attr("Type", T_Worksheet),
                 Attr("Target", EscapePath(Head(sheets).target))>>)>>
         \o SheetRelationshipElements(Tail(sheets))

build_workbook_rels(preserved, sheets) ==
    <<XmlDecl, StartTag("Relationships", <<>>)>>
    \o PreservedElements(preserved)
    \o SheetRelationshipElements(sheets)
    \o <<EndTag("Relationships")>>

\* the override lines written before </Types>
RECURSIVE SheetOverrides(_)
SheetOverrides(sheets) ==
    IF sheets = <<>> THEN <<>>
    ELSE <<TextTok(<<" ">>),
           EmptyTag("Override", <<Attr("PartName", <<"", "xl">> \o Head(sheets).target),
                                  Attr("ContentType", CT_Worksheet)>>)>>
         \o SheetOverrides(Tail(sheets))

\* build_content_types: the loop, from the reader state and the writer buffer
RECURSIVE ContentTypesLoop(_, _, _, _)
ContentTypesLoop(rest, open, out, sheets) ==
    IF rest = <<>> THEN [ok |-> TRUE, data |-> out]
    ELSE LET r == ReadEvent(open, Head(rest))
         IN  IF r.err THEN [ok |-> FALSE, data |-> <<>>]
             ELSE IF r.ev.k = "Empty"
             THEN IF /\ r.ev.name = "Override"
                     /\ HasAttribute(r.ev, "PartName")
                     /\ ContainsXlWorksheets(attribute_value(r.ev, "PartName"))
                  THEN ContentTypesLoop(Tail(rest), r.open, out, sheets)
                  ELSE ContentTypesLoop(Tail(rest), r.open, Append(out, r.ev), sheets)
             ELSE IF r.ev.k = "End"
             THEN ContentTypesLoop(Tail(rest), r.open,
                      out \o (IF r.ev.name = "Types" THEN SheetOverrides(sheets) ELSE <<>>)
                          \o <<r.ev>>, sheets)
             ELSE ContentTypesLoop(Tail(rest), r.open, Append(out, r.ev), sheets)

build_content_types(original, sheets) == ContentTypesLoop(original, <<>>, <<>>, sheets)

\* the three fixed parts are abridged: the declaration, the root element and the
\* elements that name a part or vary with the sheets; name spaces are left out
build_root_relationships ==
    <<XmlDecl, StartTag("Relationships", <<>>),
      EmptyTag("Relationship", <<Attr("Id", <<"r","I","d","1">>),
                                 Attr("Type", <<"officeDocument">>),
                                 Attr("Target", P_Workbook)>>),
      EmptyTag("Relationship", <<Attr("Id", <<"r","I","d","2">>),
                                 Attr("Type", <<"core-properties">>),
                                 Attr("Target", P_CoreDoc)>>),
      EmptyTag("Relationship", <<Attr("Id", <<"r","I","d","3">>),
                                 Attr("Type", <<"extended-properties">>),
                                 Attr("Target", P_AppDoc)>>),
      EndTag("Relationships")>>

RECURSIVE SheetTitles(_)
SheetTitles(sheets) ==
    IF sheets = <<>> THEN <<>>
    ELSE <<StartTag("vt:lpstr", <<>>), TextTok(xml_escape(Head(sheets).name)),
           EndTag("vt:lpstr")>> \o SheetTitles(Tail(sheets))

build_app_doc(sheets) ==
    <<XmlDecl, StartTag("Properties", <<>>),
      StartTag("vt:i4", <<>>), TextTok(DecOf(Len(sheets))), EndTag("vt:i4"),
      StartTag("vt:vector", <<Attr("size", DecOf(Len(sheets)))>>)>>
    \o SheetTitles(sheets)
    \o <<EndTag("vt:vector"), EndTag("Properties")>>

build_core_doc ==
    <<XmlDecl, StartTag("cp:coreProperties", <<>>),
      StartTag("dc:creator", <<>>), TextTok(<<"Bulk Sheet Editor">>), EndTag("dc:creator"),
      EndTag("cp:coreProperties")>>

\* lines 231-243: the entries written for the generated sheets
RECURSIVE SheetEntries(_)
SheetEntries(sheets) ==
    IF sheets = <<>> THEN <<>>
    ELSE LET sheet == Head(sheets)
         IN  <<Entry(<<"xl">> \o sheet.target, sheet.data)>>
             \o (IF sheet.relationship_part # <<>> /\ HasRelationshipPath(sheet.target)
                 THEN <<Entry(<<"xl">> \o sheet_relationship_path(sheet.target),
                              sheet.relationship_part[1])>>
                 ELSE <<>>)
             \o SheetEntries(Tail(sheets))

\* lines 245-252: the entries of the template copied through
RECURSIVE PassthroughEntries(_)
PassthroughEntries(entries) ==
    IF entries = <<>> THEN <<>>
    ELSE (IF should_skip_entry(Head(entries).name) THEN <<>> ELSE <<Head(entries)>>)
         \o PassthroughEntries(Tail(entries))

\* write_workbook_from_template after File::create: every entry it writes, in
\* order, or the error of build_content_types
ArchiveEntries(ctx, sheets) ==
    LET content_types == build_content_types(ctx.content_types_xml, sheets)
    IN  IF ~content_types.ok THEN [ok |-> FALSE, entries |-> <<>>]
        ELSE [ok |-> TRUE, entries |->
                <<Entry(P_ContentTypes, content_types.data),
                  Entry(P_RootRels, build_root_relationships),
                  Entry(P_AppDoc, build_app_doc(sheets)),
                  Entry(P_CoreDoc, build_core_doc),
                  Entry(P_Workbook, build_workbook_xml(sheets)),
                  Entry(P_WorkbookRels,
                        build_workbook_rels(ctx.preserved_relationships, sheets))>>
                \o SheetEntries(sheets)
                \o PassthroughEntries(ctx.entries)]

-----------------------------------------------------------------------------
(* Inputs of the assembler: template packages, rows and mappings *)

N_Data  == <<"D","a","t","a">>
N_data  == <<"d","a","t","a">>
N_Other == <<"O","t","h","e","r">>

RId(digits) == RelPrefix \o digits

T_Styles == <<"http://schemas.openxmlformats.org", "officeDocument", "2006",
              "relationships", "styles">>
T_Theme  == <<"http://schemas.openxmlformats.org", "officeDocument", "2006",
              "relationships", "theme">>
T_ExternalLink == <<"http://schemas.openxmlformats.org", "officeDocument", "2006",
                    "relationships", "externalLink">>
CT_Styles   == "application/vnd.openxmlformats-officedocument.spreadsheetml.styles+xml"
CT_Workbook == "application/vnd.openxmlformats-officedocument.spreadsheetml.sheet.main+xml"

Relationship(id, kind, target) ==
    EmptyTag("Relationship", <<Attr("Id", id), Attr("Type", kind), Attr("Target", target)>>)
Override(part_name, content_type) ==
    EmptyTag("Override", <<Attr("PartName", part_name), Attr("ContentType", content_type)>>)
SheetElement(name, sheet_id, rel) ==
    EmptyTag("sheet", <<Attr("name", name), Attr("sheetId", sheet_id), Attr("r:id", rel)>>)

P_Sheet1 == <<"xl", "worksheets", "sheet1.xml">>
P_Sheet2 == <<"xl", "worksheets", "sheet2.xml">>
P_Sheet1Rels == <<"xl", "worksheets", "_rels", "sheet1.xml.rels">>
P_Styles == <<"xl", "styles.xml">>
P_Theme  == <<"xl", "theme", "theme1.xml">>

\* the template sheet: <worksheet><sheetData><row><c r="A1"><v>old</v></c>
\* <c r="B1" s="1"/></row></sheetData></worksheet>
SheetBody ==
    <<XmlDecl, StartTag("worksheet", <<>>), StartTag("sheetData", <<>>),
      StartTag("row", <<Attr("r", <<"1">>)>>),
      StartTag("c", <<Attr("r", A1)>>), StartTag("v", <<>>), TextTok(<<"o","l","d">>),
      EndTag("v"), EndTag("c"),
      EmptyTag("c", <<Attr("r", B1), Attr("s", <<"1">>)>>),
      EndTag("row"), EndTag("sheetData"), EndTag("worksheet")>>
\* the same with bytes in the row that are no markup
BrokenSheetBody ==
    <<XmlDecl, StartTag("worksheet", <<>>), StartTag("sheetData", <<>>),
      StartTag("row", <<Attr("r", <<"1">>)>>),
      EmptyTag("c", <<Attr("r", A1)>>), BadTok,
      EndTag("row"), EndTag("sheetData"), EndTag("worksheet")>>
OtherSheetBody ==
    <<XmlDecl, StartTag("worksheet", <<>>), EmptyTag("sheetData", <<>>),
      EndTag("worksheet")>>

WorkbookXml ==
    <<XmlDecl, StartTag("workbook", <<>>), EmptyTag("workbookPr", <<>>),
      StartTag("sheets", <<>>),
      SheetElement(N_Data, <<"1">>, RId(<<"1">>)),
      SheetElement(N_Other, <<"2">>, RId(<<"2">>)),
      EndTag("sheets"), EndTag("workbook")>>

\* the relationship table: the template sheet's relationship and the others
RelationshipsXml(others) ==
    <<XmlDecl, StartTag("Relationships", <<>>),
      Relationship(RId(<<"1">>), T_Worksheet, <<"worksheets", "sheet1.xml">>)>>
    \o others \o <<EndTag("Relationships")>>

OtherRelationships ==
    [ plain |->
        <<Relationship(RId(<<"2">>), T_Worksheet, <<"worksheets", "sheet2.xml">>),
          Relationship(RId(<<"3">>), T_Styles, <<"styles.xml">>)>>,
      \* an identifier that is no rId<number>, and one with leading zeros
      named |->
        <<Relationship(<<"t","h","e","m","e">>, T_Theme, <<"theme", "theme1.xml">>),
          Relationship(RId(<<"0","0","7">>), T_Styles, <<"styles.xml">>)>>,
      \* the largest u32 as suffix, and the suffix 0
      largest |->
        <<Relationship(RId(U32_MAX), T_Styles, <<"styles.xml">>),
          Relationship(RId(<<"0">>), T_Theme, <<"theme", "theme1.xml">>)>>,
      \* a suffix above the u32 range, and a suffix with a sign
      beyond |->
        <<Relationship(RId(<<"4","2","9","4","9","6","7","2","9","6">>), T_Styles,
                       <<"styles.xml">>),
          Relationship(RId(<<"+","5">>), T_Theme, <<"theme", "theme1.xml">>)>>,
      \* an attribute besides Id, Type and Target, and an identifier that holds
      \* an entity (attribute values are the raw bytes of the file)
      external |->
        <<EmptyTag("Relationship",
              <<Attr("Id", RId(<<"2">>)), Attr("Type", T_ExternalLink),
                Attr("Target", <<"file:", "book.xlsx">>),
                Attr("TargetMode", <<"E","x","t","e","r","n","a","l">>)>>),
          Relationship(<<"a","&","a","m","p",";","b">>, T_Styles, <<"styles.xml">>)>>,
      none |-> <<>> ]

ContentTypes ==
    [ plain |->
        <<XmlDecl, StartTag("Types", <<>>),
          EmptyTag("Default", <<Attr("Extension", <<"x","m","l">>),
                                Attr("ContentType", "application/xml")>>),
          Override(<<"", "xl", "workbook.xml">>, CT_Workbook),
          Override(<<"", "xl", "worksheets", "sheet1.xml">>, CT_Worksheet),
          Override(<<"", "xl", "worksheets", "sheet2.xml">>, CT_Worksheet),
          Override(<<"", "xl", "styles.xml">>, CT_Styles),
          EndTag("Types")>>,
      \* the worksheet override written with a closing tag:
      \* <Override PartName="/xl/worksheets/sheet1.xml" ...></Override>
      paired |->
        <<XmlDecl, StartTag("Types", <<>>),
          Override(<<"", "xl", "workbook.xml">>, CT_Workbook),
          StartTag("Override", <<Attr("PartName", <<"", "xl", "worksheets", "sheet1.xml">>),
                                 Attr("ContentType", CT_Worksheet)>>),
          EndTag("Override"),
          Override(<<"", "xl", "styles.xml">>, CT_Styles),
          EndTag("Types")>>,
      \* not well formed
      broken |->
        <<XmlDecl, StartTag("Types", <<>>),
          Override(<<"", "xl", "workbook.xml">>, CT_Workbook), BadTok,
          EndTag("Types")>> ]

StylesXml == <<XmlDecl, EmptyTag("styleSheet", <<>>)>>
ThemeXml == <<XmlDecl, EmptyTag("a:theme", <<>>)>>
SheetRelsXml ==
    <<XmlDecl, StartTag("Relationships", <<>>),
      Relationship(RId(<<"1">>), <<"http://schemas.openxmlformats.org", "drawing">>,
                   <<"..", "drawings", "drawing1.xml">>),
      EndTag("Relationships")>>
TemplateRootRels ==
    <<XmlDecl, StartTag("Relationships", <<>>),
      Relationship(RId(<<"9">>), <<"http://schemas.openxmlformats.org", "officeDocument">>,
                   P_Workbook),
      EndTag("Relationships")>>
TemplateAppDoc ==
    <<XmlDecl, StartTag("Properties", <<>>), StartTag("Application", <<>>),
      TextTok(<<"Calc">>), EndTag("Application"), EndTag("Properties")>>

\* the entries of a template archive, in the order of the BTreeMap they are
\* loaded into
Package(others, content_types, sibling, body) ==
    <<Entry(P_ContentTypes, ContentTypes[content_types]),
      Entry(P_RootRels, TemplateRootRels),
      Entry(P_AppDoc, TemplateAppDoc),
      Entry(P_WorkbookRels, RelationshipsXml(OtherRelationships[others])),
      Entry(P_Styles, StylesXml),
      Entry(P_Theme, ThemeXml),
      Entry(P_Workbook, WorkbookXml)>>
    \o (IF sibling THEN <<Entry(P_Sheet1Rels, SheetRelsXml)>> ELSE <<>>)
    \o <<Entry(P_Sheet1, body), Entry(P_Sheet2, OtherSheetBody)>>

\* a package without the entry named name
RECURSIVE Without(_, _)
Without(entries, name) ==
    IF entries = <<>> THEN <<>>
    ELSE (IF Head(entries).name = name THEN <<>> ELSE <<Head(entries)>>)
         \o Without(Tail(entries), name)

BasePackage == Package("plain", "plain", TRUE, SheetBody)

Packages ==
    { BasePackage,
      Package("named", "plain", FALSE, SheetBody),
      Package("largest", "plain", FALSE, SheetBody),
      Package("beyond", "plain", TRUE, SheetBody),
      Package("external", "plain", FALSE, SheetBody),
      Package("none", "paired", FALSE, SheetBody),
      Package("plain", "broken", FALSE, SheetBody),
      Package("plain", "plain", TRUE, BrokenSheetBody),
      Without(BasePackage, P_Sheet1),
      Without(BasePackage, P_WorkbookRels) }

\* the values of the i-th CSV row: x<i>, y<i>
X(i) == <<"x">> \o DecOf(i)
Y(i) == <<"y">> \o DecOf(i)

\* every list of at most n rows, the i-th holding one or two values
RECURSIVE RowLists(_)
RowLists(n) ==
    IF n = 0 THEN {<<>>}
    ELSE LET shorter == RowLists(n - 1)
         IN  shorter \cup {Append(rows, values) :
                              rows \in {r \in shorter : Len(r) = n - 1},
                              values \in {<<X(n)>>, <<X(n), Y(n)>>}}

A01 == <<"A","0","1">>

MappingLists ==
    { <<>>,
      <<CellMapping(0, <<" ">>)>>,
      <<CellMapping(0, A1)>>,
      \* one cell named twice, in upper and in lower case
      <<CellMapping(0, A1), CellMapping(1, a1)>>,
      \* one cell named twice, the later mapping from the lower column
      <<CellMapping(1, B1), CellMapping(0, <<>>), CellMapping(0, B1)>>,
      \* one cell named twice, with and without a leading zero
      <<CellMapping(1, A1), CellMapping(0, A01)>>,
      \* no address
      <<CellMapping(0, <<"A","!">>)>>,
      \* a column no row has, and a cell the template does not have
      <<CellMapping(2, A1), CellMapping(0, C9)>>,
      \* a column no row has, alone
      <<CellMapping(2, A1)>> }

\* Option<String>: <<>> is None
Selections ==
    { [odf_path |-> TRUE, selected_sheet |-> <<N_Data>>],
      [odf_path |-> FALSE, selected_sheet |-> <<N_Data>>],
      [odf_path |-> TRUE, selected_sheet |-> <<>>],
      [odf_path |-> TRUE, selected_sheet |-> <<N_data>>] }

Scenarios ==
    { scenario \in [package : Packages, selection : Selections] :
        \/ scenario.package = BasePackage
        \/ scenario.selection = [odf_path |-> TRUE, selected_sheet |-> <<N_Data>>] }

\* a file that is at the output path before the call
OldFile == [exists |-> TRUE, complete |-> TRUE,
            entries |-> <<Entry(<<"old">>, <<TextTok(<<"o","l","d">>)>>)>>]

-----------------------------------------------------------------------------
(* BulkCreateModule::generate_and_save and build_and_write, step by step *)

E_TemplateWorkbookMissing == "Template workbook missing"
E_TemplateSheetMissing == "Template sheet missing"
E_NoRows == "CSV file does not contain data rows."
E_NoMappings == "No column mappings configured."
E_Io == "I/O error"

Ok(count) == [ok |-> TRUE, count |-> count, error |-> ""]
Err(error) == [ok |-> FALSE, count |-> 0, error |-> error]

\* the mutant looks at the mappings before the rows
InputError_MappingsFirst(st) ==
    IF ~st.odf_path THEN E_TemplateWorkbookMissing
    ELSE IF st.selected_sheet = <<>> THEN E_TemplateSheetMissing
    ELSE IF NonBlankMappings(st.cell_mappings) = <<>> THEN E_NoMappings
    ELSE IF st.csv_rows = <<>> THEN E_NoRows
    ELSE ""

\* lines 69-92: the error build_and_write returns before it loads the
\* template, "" when it goes on
InputError(st) ==
    IF ~st.odf_path THEN E_TemplateWorkbookMissing
    ELSE IF st.selected_sheet = <<>> THEN E_TemplateSheetMissing
    ELSE IF st.csv_rows = <<>> THEN E_NoRows
    ELSE IF NonBlankMappings(st.cell_mappings) = <<>> THEN E_NoMappings
    ELSE ""

\* the mutant pairs every sheet with the first row
RowValues_First(rows, row_index) == rows[1]

\* rows.iter().enumerate(): the values at the 0-based row_index
RowValues(rows, row_index) == rows[row_index + 1]

\* lines 111-118: the export pushed for the row at row_index
NextExport(ctx, template_sheet_name, row_index, rel_index, sheet_xml) ==
    WorksheetExport(template_sheet_name \o <<" ">> \o DecOf(row_index + 1),
                    RelPrefix \o rel_index,
                    SheetTarget(row_index + 1),
                    DecOf(row_index + 1),
                    sheet_xml,
                    ctx.template_sheet_relationship)

AsmInit ==
    /\ \E scenario \in Scenarios, rows \in RowLists(MaxRows), mappings \in MappingLists,
          file \in {NoFile, OldFile} :
          /\ state = [csv_rows |-> rows,
                      odf_path |-> scenario.selection.odf_path,
                      selected_sheet |-> scenario.selection.selected_sheet,
                      cell_mappings |-> mappings,
                      last_output_path |-> FALSE]
          /\ template_file = scenario.package
          /\ dest = file
          /\ dest0 = file
    /\ module = [save_path |-> FALSE, status_message |-> <<>>, error_message |-> ""]
    /\ pc = "idle"
    /\ opened = FALSE
    /\ context = NoContext
    /\ sheet_exports = <<>>
    /\ next_rel_index = <<"0">>
    /\ row_replacements = <<>>
    /\ result = NoResult
    /\ PatchParked
    /\ VariantsParked
    /\ CodecParked
    /\ LoadParked
    /\ WizardParked
    /\ StepParked
    /\ TemplateParked

\* lines 69-92
CheckInputs ==
    /\ pc = "idle"
    /\ IF InputError(state) # ""
       THEN /\ result' = Err(InputError(state))
            /\ pc' = "return"
       ELSE /\ pc' = "load"
            /\ UNCHANGED result
    /\ UNCHANGED <<state, template_file, dest, dest0, module, opened, context,
                   sheet_exports, next_rel_index, row_replacements, rest_a>>

\* lines 94-96
LoadTemplate ==
    /\ pc = "load"
    /\ opened' = TRUE
    /\ LET loaded == TemplateContextLoad(template_file, state.selected_sheet[1])
       IN  IF loaded.ok
           THEN /\ context' = loaded
                /\ next_rel_index' = loaded.next_relationship_index
                /\ pc' = "rows"
                /\ UNCHANGED result
           ELSE /\ result' = Err(loaded.error)
                /\ pc' = "return"
                /\ UNCHANGED <<context, next_rel_index>>
    /\ UNCHANGED <<state, template_file, dest, dest0, module, sheet_exports,
                   row_replacements, rest_a>>

\* lines 98-109 for the next row: the replacement map and the patched body
NextRowIndex == Len(sheet_exports)
NextReplacements ==
    RowReplacements(NonBlankMappings(state.cell_mappings),
                    RowValues(state.csv_rows, NextRowIndex), NoReplacements)
NextSheetXml == update_sheet_xml(context.template_sheet_xml, NextReplacements)

\* lines 98-119: one iteration of the loop over the rows
GenerateRow ==
    /\ pc = "rows"
    /\ NextRowIndex < Len(state.csv_rows)
    /\ NextSheetXml.ok
    /\ next_rel_index # U32_MAX
    /\ next_rel_index' = DecSucc(next_rel_index)
    /\ sheet_exports' = Append(sheet_exports,
           NextExport(context, state.selected_sheet[1], NextRowIndex,
                      next_rel_index', NextSheetXml.data))
    /\ row_replacements' = Append(row_replacements, NextReplacements)
    /\ UNCHANGED <<state, template_file, dest, dest0, module, pc, opened, context, result,
                   rest_a>>

\* line 109: update_sheet_xml returns an error
GenerateRowXmlError ==
    /\ pc = "rows"
    /\ NextRowIndex < Len(state.csv_rows)
    /\ ~NextSheetXml.ok
    /\ result' = Err(E_Xml)
    /\ pc' = "return"
    /\ row_replacements' = Append(row_replacements, NextReplacements)
    /\ UNCHANGED <<state, template_file, dest, dest0, module, opened, context,
                   sheet_exports, next_rel_index, rest_a>>

\* line 110 when next_rel_index is u32::MAX: the addition panics in a build
\* with overflow checks and wraps to 0 in a build without
GenerateRowOverflow ==
    /\ pc = "rows"
    /\ NextRowIndex < Len(state.csv_rows)
    /\ NextSheetXml.ok
    /\ next_rel_index = U32_MAX
    /\ row_replacements' = Append(row_replacements, NextReplacements)
    /\ \/ /\ pc' = "panic"
          /\ UNCHANGED <<next_rel_index, sheet_exports>>
       \/ /\ next_rel_index' = <<"0">>
          /\ sheet_exports' = Append(sheet_exports,
                 NextExport(context, state.selected_sheet[1], NextRowIndex,
                            next_rel_index', NextSheetXml.data))
          /\ UNCHANGED pc
    /\ UNCHANGED <<state, template_file, dest, dest0, module, opened, context, result,
                   rest_a>>

\* line 193: File::create truncates the file at the output path, or fails
CreateFile ==
    /\ pc = "rows"
    /\ NextRowIndex = Len(state.csv_rows)
    /\ \/ /\ dest' = [exists |-> TRUE, complete |-> FALSE, entries |-> <<>>]
          /\ pc' = "write"
          /\ UNCHANGED result
       \/ /\ result' = Err(E_Io)
          /\ pc' = "return"
          /\ UNCHANGED dest
    /\ UNCHANGED <<state, template_file, dest0, module, opened, context,
                   sheet_exports, next_rel_index, row_replacements, rest_a>>

\* lines 197-254: the entries are built and written; build_content_types or a
\* write may fail, and the file keeps what was written before
WriteArchive ==
    /\ pc = "write"
    /\ LET archive == ArchiveEntries(context, sheet_exports)
       IN  IF ~archive.ok
           THEN /\ result' = Err(E_Xml)
                /\ UNCHANGED dest
           ELSE \/ /\ dest' = [exists |-> TRUE, complete |-> TRUE,
                               entries |-> archive.entries]
                   /\ result' = Ok(Len(sheet_exports))
                \/ \E written \in 0..Len(archive.entries) :
                      /\ dest' = [exists |-> TRUE, complete |-> FALSE,
                                  entries |-> SubSeq(archive.entries, 1, written)]
                      /\ result' = Err(E_Io)
    /\ pc' = "return"
    /\ UNCHANGED <<state, template_file, dest0, module, opened, context,
                   sheet_exports, next_rel_index, row_replacements, rest_a>>

\* format!("Created {} sheet(s) using the template.", sheet_count)
StatusMessage(sheet_count) ==
    <<"Created ">> \o DecOf(sheet_count) \o <<" sheet(s) using the template.">>

\* lines 52-65: generate_and_save takes the result
Return ==
    /\ pc = "return"
    /\ IF result.ok
       THEN /\ module' = [save_path |-> TRUE,
                          status_message |-> StatusMessage(result.count),
                          error_message |-> ""]
            /\ state' = [state EXCEPT !.last_output_path = TRUE]
       ELSE /\ module' = [module EXCEPT !.error_message = result.error]
            /\ UNCHANGED state
    /\ pc' = "done"
    /\ UNCHANGED <<template_file, dest, dest0, opened, context, sheet_exports,
                   next_rel_index, row_replacements, result, rest_a>>

Next ==
    \/ CheckInputs
    \/ LoadTemplate
    \/ GenerateRow
    \/ GenerateRowXmlError
    \/ GenerateRowOverflow
    \/ CreateFile
    \/ WriteArchive
    \/ Return

Init == AsmInit

Spec == Init /\ [][Next]_vars

-----------------------------------------------------------------------------
(* What a run is expected to produce, stated apart from the loop that builds it *)

\* the mappings (by position) that give the row a replacement: an address
\* that parses and a column the row has
Usable(mappings, row_values) ==
    {j \in DOMAIN mappings :
        /\ ~IsBlank(mappings[j].cell_ref)
        /\ parse_cell_reference(mappings[j].cell_ref).some
        /\ mappings[j].column_index < Len(row_values)}

\* the normalized address of a mapping
LabelOf(mapping) ==
    LET parsed == parse_cell_reference(mapping.cell_ref)
    IN  CellLabel(parsed.row, parsed.col)

\* the last usable mapping of a label
LastFor(mappings, row_values, label) ==
    CHOOSE j \in Usable(mappings, row_values) :
        /\ LabelOf(mappings[j]) = label
        /\ \A h \in Usable(mappings, row_values) :
              LabelOf(mappings[h]) = label => h <= j

\* per label, the row's value at the column of the label's last usable mapping
ExpectedMap(mappings, row_values) ==
    [label \in {LabelOf(mappings[j]) : j \in Usable(mappings, row_values)} |->
        row_values[mappings[LastFor(mappings, row_values, label)].column_index + 1]]

TemplateBody == GetEntry(template_file, P_Sheet1)

\* the elements named name of a body, in document order
ElementsOf(body, name) ==
    SelectSeq(body, LAMBDA tok : tok.k \in {"Start", "Empty"} /\ tok.name = name)

Succeeded == pc \in {"return", "done"} /\ result.ok

\* C1: a run of build_and_write over n >= 1 rows with a non-blank mapping
\* that succeeds produces exactly n sheets in the order of the rows: the i-th
\* is named "<template sheet name> i" and its body is the template body
\* patched with the replacements of row i, and with those of no other row.
C1_SheetPerRow ==
    /\ \A i \in DOMAIN sheet_exports :
          /\ sheet_exports[i].name = state.selected_sheet[1] \o <<" ">> \o DecOf(i)
          /\ sheet_exports[i].data =
                update_sheet_xml(TemplateBody,
                    ExpectedMap(state.cell_mappings, state.csv_rows[i])).data
    /\ Succeeded =>
          /\ Len(state.csv_rows) >= 1
          /\ result.count = Len(state.csv_rows)
          /\ Len(sheet_exports) = Len(state.csv_rows)
          /\ LET sheets == ElementsOf(GetEntry(dest.entries, P_Workbook), "sheet")
             IN  /\ Len(sheets) = Len(state.csv_rows)
                 /\ \A i \in DOMAIN sheets :
                       /\ attribute_value(sheets[i], "name") =
                             xml_escape(sheet_exports[i].name)
                       /\ GetEntry(dest.entries, <<"xl">> \o sheet_exports[i].target) =
                             sheet_exports[i].data

\* two rows, both with replacements, written to the destination
C1_Witness ==
    /\ pc = "done"
    /\ result.ok
    /\ Len(sheet_exports) = 2
    /\ DOMAIN row_replacements[1] # {}
    /\ sheet_exports[1].data # sheet_exports[2].data
    /\ sheet_exports[1].data # TemplateBody

\* C9: within one row, when several mappings decode to one destination
\* address, also through address texts that differ only in letter case, the
\* replacement map holds exactly one entry for the address, with the value of
\* the mapping that is last in the list among those with a value in the
\* row, and the generated sheet holds that value in the one cell of the address.
C9_LastMappingWins ==
    \A i \in DOMAIN row_replacements :
        LET row_values == state.csv_rows[i]
            usable == Usable(state.cell_mappings, row_values)
        IN  /\ \A j \in usable :
                  LET label == LabelOf(state.cell_mappings[j])
                      later == {h \in usable : h >= j /\
                                   LabelOf(state.cell_mappings[h]) = label}
                      last == CHOOSE h \in later : \A g \in later : g <= h
                  IN  /\ label \in DOMAIN row_replacements[i]
                      /\ row_replacements[i][label] =
                            row_values[state.cell_mappings[last].column_index + 1]
            /\ i \in DOMAIN sheet_exports =>
                  \A label \in DOMAIN row_replacements[i] :
                      LET cells == {k \in DOMAIN sheet_exports[i].data :
                                      /\ sheet_exports[i].data[k].k = "Start"
                                      /\ sheet_exports[i].data[k].name = "c"
                                      /\ HasAttribute(sheet_exports[i].data[k], "r")
                                      /\ attribute_value(sheet_exports[i].data[k], "r") = label}
                      IN  /\ Cardinality(cells) <= 1
                          /\ \A k \in cells :
                                sheet_exports[i].data[k + 3] =
                                    TextTok(xml_escape(row_replacements[i][label]))

\* A1 is mapped from column 0 as "A1" and then from column 1 as "a1"; the
\* row has both columns and the sheet's A1 holds the value of column 1
C9_Witness ==
    /\ state.cell_mappings = <<CellMapping(0, A1), CellMapping(1, a1)>>
    /\ Len(sheet_exports) >= 1
    /\ Len(state.csv_rows[1]) = 2
    /\ row_replacements[1][A1] = Y(1)
    /\ \E k \in DOMAIN sheet_exports[1].data :
          sheet_exports[1].data[k] = TextTok(Y(1))

\* C10: with a template path and a template sheet selected and no data
\* rows, build_and_write returns the error "CSV file does not contain data
\* rows." without having opened the template, and the destination file is
\* neither created nor modified.
C10_NoRows ==
    (state.odf_path /\ state.selected_sheet # <<>> /\ state.csv_rows = <<>> /\ pc # "idle")
    => /\ pc \in {"return", "done"}
       /\ result = Err(E_NoRows)
       /\ ~opened
       /\ dest = dest0
       /\ pc = "done" => module.error_message = E_NoRows

\* no rows and no mapping either, a file already at the destination
C10_Witness ==
    /\ pc = "done"
    /\ state.odf_path /\ state.selected_sheet # <<>>
    /\ state.csv_rows = <<>>
    /\ NonBlankMappings(state.cell_mappings) = <<>>
    /\ result.error = E_NoRows
    /\ dest0 = OldFile

\* C2: whatever relationship identifiers the template's workbook
\* relationship table holds, the identifiers given to the generated sheets
\* are pairwise distinct and distinct from every preserved identifier.
\* Refuted: after rId4294967295 the u32 counter wraps to 0 in a build without
\* overflow checks, and rId0 may be a preserved identifier.
C2_UniqueRelationshipIds ==
    context.ok =>
        /\ \A i, j \in DOMAIN sheet_exports :
              i # j => sheet_exports[i].relationship_id # sheet_exports[j].relationship_id
        /\ \A i \in DOMAIN sheet_exports :
              \A k \in DOMAIN context.preserved_relationships :
                  sheet_exports[i].relationship_id # context.preserved_relationships[k].id

\* the positions of the elements named name whose attribute key has the value
Positions(body, name, key, value) ==
    {k \in DOMAIN body :
        /\ body[k].k \in {"Start", "Empty"}
        /\ body[k].name = name
        /\ HasAttribute(body[k], key)
        /\ attribute_value(body[k], key) = value}

\* the worksheet parts of an archive: the entries directly in xl/worksheets/
WorksheetParts(entries) ==
    {entries[k].name : k \in {h \in DOMAIN entries :
        Len(entries[h].name) = 3 /\ StartsWithXlWorksheets(entries[h].name)}}

\* C3: in a workbook that was written completely, every sheet entry's
\* relationship identifier occurs exactly once in the relationship table, as
\* a worksheet relationship whose target is a worksheet part of the archive
\* with exactly one content-type override, and every worksheet part of the
\* archive is the target of exactly one sheet entry.
\* Refuted: an override of the template written as a pair of tags survives
\* build_content_types next to the override written for the generated part.
C3_ReferentialIntegrity ==
    (Succeeded /\ dest.complete) =>
        LET workbook == GetEntry(dest.entries, P_Workbook)
            table == GetEntry(dest.entries, P_WorkbookRels)
            types == GetEntry(dest.entries, P_ContentTypes)
            sheets == ElementsOf(workbook, "sheet")
            PartOf(sheet) ==
                LET at == Positions(table, "Relationship", "Id",
                                    attribute_value(sheet, "r:id"))
                IN  <<"xl">> \o attribute_value(table[CHOOSE k \in at : TRUE], "Target")
        IN  /\ \A i \in DOMAIN sheets :
                  LET at == Positions(table, "Relationship", "Id",
                                      attribute_value(sheets[i], "r:id"))
                  IN  /\ Cardinality(at) = 1
                      /\ \A k \in at : EndsWithWorksheet(attribute_value(table[k], "Type"))
                      /\ PartOf(sheets[i]) \in WorksheetParts(dest.entries)
                      /\ Cardinality(Positions(types, "Override", "PartName",
                                               <<"">> \o PartOf(sheets[i]))) = 1
                      /\ \A k \in Positions(types, "Override", "PartName",
                                            <<"">> \o PartOf(sheets[i])) :
                            attribute_value(types[k], "ContentType") = CT_Worksheet
            /\ \A part \in WorksheetParts(dest.entries) :
                  Cardinality({i \in DOMAIN sheets :
                      /\ Positions(table, "Relationship", "Id",
                                   attribute_value(sheets[i], "r:id")) # {}
                      /\ PartOf(sheets[i]) = part}) = 1

-----------------------------------------------------------------------------
(* The row materializers of the ODS generation variants                     *)
(* (bulk_creation.rs build_sheet_data, worksheet_generation.rs              *)
(* build_sheet_content). Rows and columns are usize; the addresses of the   *)
(* model have at most two letters and three digits, far from its range.     *)

\* str::parse::<usize>() on ASCII digits
RECURSIVE DecValue(_)
DecValue(digits) ==
    IF digits = <<>> THEN 0 ELSE DecValue(Front(digits)) * 10 + DigitValue(Last(digits))

\* the loop over the letters: col = col * 26 + (ch - 'A' + 1)
RECURSIVE ColumnNumber(_)
ColumnNumber(letters) ==
    IF letters = <<>> THEN 0
    ELSE ColumnNumber(Front(letters)) * 26 + LetterValue(Last(letters))

saturating_sub(a, b) == IF a > b THEN a - b ELSE 0

NoIndices == [some |-> FALSE, row |-> 0, col |-> 0]

\* bulk_creation.rs: letters and digits are picked out, anything else is ignored
cell_to_indices(cell) ==
    LET letters == SelectSeq(cell, is_ascii_alphabetic)
        digits == SelectSeq(cell, is_ascii_digit)
    IN  IF letters = <<>> \/ digits = <<>> THEN NoIndices
        ELSE [some |-> TRUE,
              row |-> saturating_sub(DecValue(digits), 1),
              col |-> saturating_sub(ColumnNumber(letters), 1)]

\* worksheet_generation.rs
parse_cell_address(address) ==
    IF address = <<>> THEN NoIndices
    ELSE LET letters == SelectSeq(address, is_ascii_alphabetic)
             digits == SelectSeq(address, is_ascii_digit)
         IN  IF letters = <<>> \/ digits = <<>> THEN NoIndices
             ELSE [some |-> TRUE,
                   row |-> saturating_sub(DecValue(digits), 1),
                   col |-> saturating_sub(ColumnNumber(letters), 1)]

CellPreview(address, value) == [address |-> address, value |-> value]
ColumnMapping(column_index, cell_address) ==
    [column_index |-> column_index, cell_address |-> cell_address]

MaxOf(a, b) == IF a >= b THEN a ELSE b

\* HashMap::insert
Put(map, key, value) == [k \in DOMAIN map \cup {key} |-> IF k = key THEN value ELSE map[k]]

\* lines 232-238: base_cells, max_row, max_col after the template cells
RECURSIVE BaseFromCells(_, _)
BaseFromCells(template_cells, acc) ==
    IF template_cells = <<>> THEN acc
    ELSE LET cell == Head(template_cells)
             at == cell_to_indices(cell.address)
         IN  BaseFromCells(Tail(template_cells),
                 IF at.some
                 THEN [base_cells |-> Put(acc.base_cells, <<at.row, at.col>>, cell.value),
                       max_row |-> MaxOf(acc.max_row, at.row),
                       max_col |-> MaxOf(acc.max_col, at.col)]
                 ELSE acc)

\* lines 240-246: entry((row, col)).or_default() for every mapped cell
RECURSIVE BaseFromMappings(_, _)
BaseFromMappings(mappings, acc) ==
    IF mappings = <<>> THEN acc
    ELSE LET at == cell_to_indices(Head(mappings).cell_address)
         IN  BaseFromMappings(Tail(mappings),
                 IF at.some
                 THEN [base_cells |-> IF <<at.row, at.col>> \in DOMAIN acc.base_cells
                                      THEN acc.base_cells
                                      ELSE Put(acc.base_cells, <<at.row, at.col>>, <<>>),
                       max_row |-> MaxOf(acc.max_row, at.row),
                       max_col |-> MaxOf(acc.max_col, at.col)]
                 ELSE acc)

\* lines 257-265: the mapped cells of a sheet take the row's values
RECURSIVE FillMapped(_, _, _)
FillMapped(mappings, csv_row, sheet) ==
    IF mappings = <<>> THEN sheet
    ELSE LET mapping == Head(mappings)
             at == cell_to_indices(mapping.cell_address)
             \* csv_row.get(mapping.column_index).cloned().unwrap_or_default()
             value == IF mapping.column_index < Len(csv_row)
                      THEN csv_row[mapping.column_index + 1] ELSE <<>>
         IN  FillMapped(Tail(mappings), csv_row,
                 IF at.some THEN [sheet EXCEPT ![<<at.row, at.col>>] = value] ELSE sheet)

\* a sheet is a grid of rows x cols texts, here a function of <<row, col>>
build_sheet_data(template_cells, mappings, csv_rows) ==
    LET acc == BaseFromMappings(mappings,
                   BaseFromCells(template_cells,
                       [base_cells |-> [k \in {} |-> <<>>], max_row |-> 0, max_col |-> 0]))
        blank == [at \in (0..acc.max_row) \X (0..acc.max_col) |-> <<>>]
        based == [at \in DOMAIN blank |->
                     IF at \in DOMAIN acc.base_cells THEN acc.base_cells[at] ELSE <<>>]
    IN  IF csv_rows = <<>> THEN <<based>>
        ELSE [i \in 1..Len(csv_rows) |-> FillMapped(mappings, csv_rows[i], based)]

\* worksheet_generation.rs lines 55-69: Vec<((usize, usize), String)>
RECURSIVE build_sheet_content(_, _)
build_sheet_content(mappings, csv_row) ==
    IF mappings = <<>> THEN <<>>
    ELSE LET mapping == Head(mappings)
             at == parse_cell_address(mapping.cell_address)
         IN  (IF mapping.column_index < Len(csv_row) /\ at.some
              THEN <<[position |-> <<at.row, at.col>>,
                      value |-> csv_row[mapping.column_index + 1]]>>
              ELSE <<>>)
             \o build_sheet_content(Tail(mappings), csv_row)

-----------------------------------------------------------------------------
(* The three paths that fill mapped cells from a row, side by side *)

Paths == {"bulk_create", "bulk_creation", "worksheet_generation"}

CellLists ==
    { <<>>,
      <<CellPreview(A1, <<"t">>)>>,
      <<CellPreview(A1, <<"t">>), CellPreview(B1, <<"u">>)>> }

\* the mapping lists of the assembler as ColumnMapping / CsvToTemplateMapping
AsColumnMappings(cell_mappings) ==
    [j \in DOMAIN cell_mappings |->
        ColumnMapping(cell_mappings[j].column_index, cell_mappings[j].cell_ref)]
\* and back, as the CellMapping of bulk_create.rs
AsCellMappings(column_mappings) ==
    [j \in DOMAIN column_mappings |->
        CellMapping(column_mappings[j].column_index, column_mappings[j].cell_address)]

VariantsInit ==
    /\ v_path \in Paths
    /\ v_cells \in CellLists
    /\ v_mappings \in {AsColumnMappings(mappings) : mappings \in MappingLists}
    /\ v_rows \in RowLists(MaxRows)
    /\ v_out = <<>>
    /\ v_pc = "run"
    /\ AsmParked
    /\ PatchParked
    /\ CodecParked
    /\ LoadParked
    /\ WizardParked
    /\ StepParked
    /\ TemplateParked

\* bulk_creation.rs: build_sheet_data builds every sheet in one call
BuildSheetData ==
    /\ v_path = "bulk_creation"
    /\ v_pc = "run"
    /\ v_out' = build_sheet_data(v_cells, v_mappings, v_rows)
    /\ v_pc' = "done"
    /\ UNCHANGED <<v_path, v_cells, v_mappings, v_rows, rest_v>>

\* worksheet_generation.rs: build_content_xml calls build_sheet_content per row
BuildSheetContent ==
    /\ v_path = "worksheet_generation"
    /\ v_pc = "run"
    /\ Len(v_out) < Len(v_rows)
    /\ v_out' = Append(v_out, build_sheet_content(v_mappings, v_rows[Len(v_out) + 1]))
    /\ UNCHANGED <<v_path, v_cells, v_mappings, v_rows, v_pc, rest_v>>

\* bulk_create.rs lines 98-107: the replacement map of the next row
MaterializeRow ==
    /\ v_path = "bulk_create"
    /\ v_pc = "run"
    /\ Len(v_out) < Len(v_rows)
    /\ v_out' = Append(v_out,
           RowReplacements(NonBlankMappings(AsCellMappings(v_mappings)),
                           RowValues(v_rows, Len(v_out)), NoReplacements))
    /\ UNCHANGED <<v_path, v_cells, v_mappings, v_rows, v_pc, rest_v>>

\* the loop over the rows ends
RowsDone ==
    /\ v_path \in {"bulk_create", "worksheet_generation"}
    /\ v_pc = "run"
    /\ Len(v_out) = Len(v_rows)
    /\ v_pc' = "done"
    /\ UNCHANGED <<v_path, v_cells, v_mappings, v_rows, v_out, rest_v>>

VariantsNext ==
    \/ BuildSheetData
    \/ BuildSheetContent
    \/ MaterializeRow
    \/ RowsDone

SpecVariants == VariantsInit /\ [][VariantsNext]_vars

\* the value the template holds at a position: that of its last cell there,
\* empty when it has none
TemplateValue(template_cells, position) ==
    LET at == {k \in DOMAIN template_cells :
                  /\ cell_to_indices(template_cells[k].address).some
                  /\ <<cell_to_indices(template_cells[k].address).row,
                       cell_to_indices(template_cells[k].address).col>> = position}
    IN  IF at = {} THEN <<>>
        ELSE template_cells[CHOOSE k \in at : \A h \in at : h <= k].value

\* C8: a mapping whose column index is at or beyond the length of the row
\* inserts nothing for that row, in each of the three paths: the replacement
\* map of bulk_create.rs has no entry from it, the cell list of
\* worksheet_generation.rs has no entry from it, and in the sheet of
\* bulk_creation.rs a cell named only by such mappings keeps the template's
\* value.
\* Refuted: build_sheet_data writes the empty string into the cell.
C8_MissingColumnSkipped ==
    \A i \in DOMAIN v_out :
        (v_rows # <<>>) =>
        LET csv_row == v_rows[i]
            HasValue(j) == v_mappings[j].column_index < Len(csv_row)
        IN  CASE v_path = "bulk_create" ->
                    \A label \in DOMAIN v_out[i] :
                        \E j \in DOMAIN v_mappings :
                            /\ HasValue(j)
                            /\ parse_cell_reference(v_mappings[j].cell_address).some
                            /\ LabelOf(AsCellMappings(v_mappings)[j]) = label
              [] v_path = "worksheet_generation" ->
                    \A k \in DOMAIN v_out[i] :
                        \E j \in DOMAIN v_mappings :
                            /\ HasValue(j)
                            /\ parse_cell_address(v_mappings[j].cell_address).some
                            /\ v_out[i][k].position =
                                  <<parse_cell_address(v_mappings[j].cell_address).row,
                                    parse_cell_address(v_mappings[j].cell_address).col>>
                            /\ v_out[i][k].value = csv_row[v_mappings[j].column_index + 1]
              [] v_path = "bulk_creation" ->
                    \A position \in DOMAIN v_out[i] :
                        (\A j \in DOMAIN v_mappings :
                            (/\ cell_to_indices(v_mappings[j].cell_address).some
                             /\ <<cell_to_indices(v_mappings[j].cell_address).row,
                                  cell_to_indices(v_mappings[j].cell_address).col>> = position)
                            => ~HasValue(j))
                        => v_out[i][position] = TemplateValue(v_cells, position)

-----------------------------------------------------------------------------
(* Claims about the failures of build_and_write, checked under Spec *)

Selected == state.odf_path /\ state.selected_sheet # <<>>
Returned == pc \in {"return", "done"}

\* a destination text that is empty or holds white space only
OnlyWhiteSpace(text) == {text[i] : i \in DOMAIN text} \subseteq {" "}

\* C11: with a template and a sheet selected, at least one row and a mapping
\* list whose every entry has an empty or white-space destination text,
\* build_and_write returns the error "No column mappings configured." and
\* writes no destination file (the template is not opened either).
C11_NoMappings ==
    (/\ Selected
     /\ state.csv_rows # <<>>
     /\ \A j \in DOMAIN state.cell_mappings :
           OnlyWhiteSpace(state.cell_mappings[j].cell_ref)
     /\ pc # "idle")
    => /\ Returned
       /\ result = Err(E_NoMappings)
       /\ ~opened
       /\ dest = dest0
       /\ pc = "done" => module.error_message = E_NoMappings

\* rows, and one mapping whose destination is a blank
C11_Witness ==
    /\ pc = "done"
    /\ Selected
    /\ state.csv_rows # <<>>
    /\ state.cell_mappings = <<CellMapping(0, <<" ">>)>>
    /\ result.error = E_NoMappings
    /\ dest = NoFile

\* C12: a mapping whose destination text is no valid A1 address gives no
\* replacement, and when no mapping of the list has a valid address (the
\* texts being non-empty) the run fails with "No column mappings
\* configured." and generates no sheet.
\* Refuted: only blank texts are filtered before the check of lines 90-92; a
\* list of invalid addresses passes it and the sheets are generated as
\* copies of the template.
C12_InvalidMappingsDropped ==
    /\ \A i \in DOMAIN row_replacements :
          \A label \in DOMAIN row_replacements[i] :
              \E j \in DOMAIN state.cell_mappings :
                  /\ parse_cell_reference(state.cell_mappings[j].cell_ref).some
                  /\ LabelOf(state.cell_mappings[j]) = label
    /\ (/\ Selected
        /\ state.csv_rows # <<>>
        /\ state.cell_mappings # <<>>
        /\ \A j \in DOMAIN state.cell_mappings :
              ~parse_cell_reference(state.cell_mappings[j].cell_ref).some
        /\ Returned)
       => /\ result = Err(E_NoMappings)
          /\ sheet_exports = <<>>
          /\ dest = dest0

\* C13: whenever a run fails, also after the destination has been opened
\* (rewriting the content-type list, writing an entry, finishing the
\* archive), the run leaves no file at the destination path, empty or
\* partial: the path holds what it held before the run.
\* Refuted: File::create comes first in write_workbook_from_template, so an
\* error of build_content_types or of a write leaves the truncated or
\* partly written file.
C13_NoPartialFile ==
    (Returned /\ ~result.ok) => dest = dest0

-----------------------------------------------------------------------------
(* Claims about the written package, checked under Spec *)

Written == Succeeded /\ dest.complete

\* the relationships of a table that are not of the worksheet type
OtherRelationshipsOf(table) ==
    SelectSeq(ElementsOf(table, "Relationship"),
              LAMBDA tok : ~(HasAttribute(tok, "Type")
                             /\ EndsWithWorksheet(attribute_value(tok, "Type"))))

\* C14: every relationship of the template's workbook relationship table
\* that is not of the worksheet type is in the written table unmodified
\* (identifier, type, target and every other attribute), in the original
\* order and before the relationships of the generated sheets; no worksheet
\* relationship of the template is in the written table.
\* Refuted: build_workbook_rels writes Id, Type and Target only, and escapes
\* the raw attribute values once more.
C14_OtherRelationshipsPreserved ==
    Written =>
        LET original == OtherRelationshipsOf(GetEntry(template_file, P_WorkbookRels))
            written == ElementsOf(GetEntry(dest.entries, P_WorkbookRels), "Relationship")
        IN  /\ Len(written) = Len(original) + Len(sheet_exports)
            /\ SubSeq(written, 1, Len(original)) = original
            /\ \A i \in DOMAIN sheet_exports :
                  LET tok == written[Len(original) + i]
                  IN  /\ attribute_value(tok, "Id") = sheet_exports[i].relationship_id
                      /\ EndsWithWorksheet(attribute_value(tok, "Type"))
                      /\ attribute_value(tok, "Target") = sheet_exports[i].target

\* an override of a worksheet part: one that gives the worksheet content type
IsWorksheetOverride(tok) ==
    /\ tok.k \in {"Start", "Empty"}
    /\ tok.name = "Override"
    /\ HasAttribute(tok, "ContentType")
    /\ attribute_value(tok, "ContentType") = CT_Worksheet

\* a content-type list without the overrides of the template's worksheet
\* parts, an override being one tag or a pair of tags
RECURSIVE WithoutWorksheetOverrides(_, _)
WithoutWorksheetOverrides(tokens, inside) ==
    IF tokens = <<>> THEN <<>>
    ELSE LET tok == Head(tokens)
         IN  IF inside
             THEN WithoutWorksheetOverrides(Tail(tokens),
                      ~(tok.k = "End" /\ tok.name = "Override"))
             ELSE IF IsWorksheetOverride(tok)
             THEN WithoutWorksheetOverrides(Tail(tokens), tok.k = "Start")
             ELSE <<tok>> \o WithoutWorksheetOverrides(Tail(tokens), FALSE)

\* C15: the written content-type list holds every entry of the template's
\* list that is no override of a worksheet part, unchanged and in order,
\* holds no override of a worksheet part of the template, however it is
\* written, and after the kept entries exactly one worksheet override per
\* generated sheet, naming the sheet's part (white space between entries
\* set aside).
\* Refuted: an override written as a pair of tags is kept.
C15_ContentTypes ==
    Written =>
        LET original == GetEntry(template_file, P_ContentTypes)
            written == SelectSeq(GetEntry(dest.entries, P_ContentTypes),
                                 LAMBDA tok : tok # TextTok(<<" ">>))
        IN  written =
                WithoutWorksheetOverrides(Front(original), FALSE)
                \o [i \in DOMAIN sheet_exports |->
                       Override(<<"", "xl">> \o sheet_exports[i].target, CT_Worksheet)]
                \o <<Last(original)>>

\* the names of the template's worksheet parts: the targets of its worksheet
\* relationships and the parts its content-type list gives the worksheet type
TemplateWorksheetParts ==
    LET table == ElementsOf(GetEntry(template_file, P_WorkbookRels), "Relationship")
        types == GetEntry(template_file, P_ContentTypes)
    IN  {<<"xl">> \o attribute_value(table[k], "Target") :
            k \in {h \in DOMAIN table :
                      EndsWithWorksheet(attribute_value(table[h], "Type"))}}
        \cup {Tail(attribute_value(types[k], "PartName")) :
                k \in {h \in DOMAIN types :
                          IsWorksheetOverride(types[h]) /\ HasAttribute(types[h], "PartName")}}

GeneratedParts == {<<"xl">> \o sheet_exports[i].target : i \in DOMAIN sheet_exports}

\* C16: every part of the template that is neither the content-type list,
\* the workbook sheet table or the workbook relationship table, nor a
\* worksheet part, is in the written archive under its name with the same
\* content; and no worksheet part of the template is carried into it.
\* Refuted: docProps/app.xml, docProps/core.xml and _rels/.rels of the
\* template are replaced by fixed documents.
C16_Passthrough ==
    Written =>
        /\ \A k \in DOMAIN template_file :
              LET part == template_file[k]
              IN  (/\ part.name \notin {P_ContentTypes, P_Workbook, P_WorkbookRels}
                   /\ part.name \notin TemplateWorksheetParts)
                  => /\ HasEntry(dest.entries, part.name)
                     /\ GetEntry(dest.entries, part.name) = part.data
        /\ \A name \in TemplateWorksheetParts :
              HasEntry(dest.entries, name) => name \in GeneratedParts

\* the documents the writer always writes
FixedDocuments == {P_ContentTypes, P_RootRels, P_AppDoc, P_CoreDoc, P_Workbook, P_WorkbookRels}

NamesOf(entries) == {entries[k].name : k \in DOMAIN entries}

C18_OneSuffix ==
    context.ok =>
        \A i \in DOMAIN sheet_exports :
            LET suffix == StripPrefix(sheet_exports[i].relationship_id, RelPrefix)
            IN  /\ HasPrefix(sheet_exports[i].relationship_id, RelPrefix)
                /\ ~DecLeq(suffix, context.next_relationship_index)
                /\ sheet_exports[i].sheet_id = suffix
                /\ sheet_exports[i].target =
                      <<"worksheets", "sheet" \o Join(suffix) \o ".xml">>

-----------------------------------------------------------------------------
(* The cell reference codec on its own: parse_cell_reference and the label
   format!("{}{}", column_label_from_index(col), row + 1) of bulk_create.rs *)

\* the longest text drawn from CellAlphabet
MaxCellLen == 3
\* the rows and columns counted up from zero
MaxRowIndex == 10
MaxColumnIndex == 27

CellAlphabet == {"A", "b", "Z", "0", "1", "9", "$"}
ShortCells == UNION {[1..n -> CellAlphabet] : n \in 0..MaxCellLen}

\* texts at the ends of the u32 range: the column labels of u32::MAX - 1 and
\* above, the row numbers u32::MAX and u32::MAX + 1
BoundaryCells ==
    { <<"M","W","L","Q","K","W","U","1">>,
      <<"m","w","l","q","k","w","u","1">>,
      <<"M","W","L","Q","K","W","V","1">>,
      <<"Z","Z","Z","Z","Z","Z","Z","1">>,
      <<"z","z","z","z","z","z","z","1">>,
      <<"A">> \o U32_MAX,
      <<"A">> \o DecSucc(U32_MAX) }

CodecCells == ShortCells \cup BoundaryCells

CodecRows ==
    {DecOf(n) : n \in 0..MaxRowIndex} \cup {DecSaturatingPred(U32_MAX), U32_MAX}
CodecColumns ==
    {u32_of(n) : n \in 0..MaxColumnIndex}
        \cup {u32_of(701), u32_of(702), u32_of(18277), u32_of(18278),
              SubOne(u32_MAX), u32_MAX}

CodecInit ==
    /\ \/ /\ c_from = "address"
          /\ c_address \in [row : CodecRows, col : CodecColumns]
          /\ c_cell = <<>>
          /\ c_pc = "encode"
       \/ /\ c_from = "text"
          /\ c_address = [row |-> <<"0">>, col |-> u32_of(0)]
          /\ c_cell \in CodecCells
          /\ c_pc = "decode"
    /\ c_parsed = NoAddress
    /\ AsmParked
    /\ PatchParked
    /\ VariantsParked
    /\ LoadParked
    /\ WizardParked
    /\ StepParked
    /\ TemplateParked

\* bulk_create.rs line 104: the label of an address. Where index + 1 or
\* row + 1 leaves the u32 range the build decides: a panic, or the wrapped sum.
EncodeAddress ==
    /\ c_pc = "encode"
    /\ \/ /\ c_cell' = CellLabel(c_address.row, c_address.col)
          /\ c_pc' = "decode"
       \/ /\ CellLabelOverflows(c_address.row, c_address.col)
          /\ c_pc' = "panicked"
          /\ UNCHANGED c_cell
    /\ UNCHANGED <<c_from, c_address, c_parsed, rest_c>>

\* parse_cell_reference(c_cell). Where col_index * 26 + v leaves the u32 range
\* the build decides likewise.
DecodeCell ==
    /\ c_pc = "decode"
    /\ \/ /\ c_parsed' = parse_cell_reference(c_cell)
          /\ c_pc' = "done"
       \/ /\ parse_cell_reference(c_cell).overflow
          /\ c_pc' = "panicked"
          /\ UNCHANGED c_parsed
    /\ UNCHANGED <<c_from, c_address, c_cell, rest_c>>

CodecNext ==
    \/ EncodeAddress
    \/ DecodeCell

SpecCodec == CodecInit /\ [][CodecNext]_vars

to_ascii_lowercase(ch) ==
    IF ch \in Range(UpperAlphabet) THEN LowerAlphabet[IndexOf(UpperAlphabet, ch)] ELSE ch
LowerCase(text) == [i \in DOMAIN text |-> to_ascii_lowercase(text[i])]

\* C19: encoding and decoding are mutual inverses. For every (row, col) pair
\* the encoder returns a label, decoding that label returns Some((row, col)),
\* the label holds upper-case letters and digits only, and decoding any text
\* returns what decoding its lower-case form returns.
\* Refuted at the end of the u32 range: for row = u32::MAX or col = u32::MAX
\* the encoder panics or prints a wrapped number.
C19_RoundTrip ==
    /\ c_from = "address" =>
          /\ c_pc # "panicked"
          /\ c_pc \in {"decode", "done"} =>
                Range(c_cell) \subseteq Range(UpperAlphabet) \cup Range(DigitChars)
          /\ c_pc = "done" =>
                /\ c_parsed.some
                /\ c_parsed.row = c_address.row
                /\ c_parsed.col = c_address.col
    /\ (c_from = "text" /\ c_pc = "done") =>
          LET lower == parse_cell_reference(LowerCase(c_cell))
          IN  /\ c_parsed.some = lower.some
              /\ c_parsed.row = lower.row
              /\ c_parsed.col = lower.col

\* the grammar of an address: one or more ASCII letters, then one or more
\* ASCII digits
LettersThenDigits(text) ==
    \E n \in 1..(Len(text) - 1) :
        /\ \A i \in 1..n : is_ascii_alphabetic(text[i])
        /\ \A i \in (n + 1)..Len(text) : is_ascii_digit(text[i])
\* the digits of the text
DigitsOf(text) == SelectSeq(text, is_ascii_digit)

\* C20: parse_cell_reference returns None for every text that is not a run
\* of letters followed by a run of digits with a value other than zero, and
\* returns (0, 0) for "A1".
\* Refuted: letters and digits are accepted in any order ("1A", "A1B"), and
\* the row number zero is read as the first row ("A0").
C20_RejectsMalformed ==
    (c_from = "text" /\ c_pc = "done") =>
        /\ c_parsed.some =>
              /\ LettersThenDigits(c_cell)
              /\ StripZeros(DigitsOf(c_cell)) # <<"0">>
        /\ c_cell = <<"A", "1">> =>
              /\ c_parsed.some
              /\ c_parsed.row = <<"0">>
              /\ c_parsed.col = u32_of(0)

-----------------------------------------------------------------------------
(* Claims about the matching of cells, checked under SpecPatch *)

\* two address texts decode to the same (row, col)
SameAddress(x, y) ==
    /\ parse_cell_reference(x).some
    /\ parse_cell_reference(y).some
    /\ parse_cell_reference(x).row = parse_cell_reference(y).row
    /\ parse_cell_reference(x).col = parse_cell_reference(y).col

\* a c element whose r attribute decodes to the address of a key of the map
DecodesToKey(event, replacements) ==
    /\ event.name = "c"
    /\ HasAttribute(event, "r")
    /\ \E key \in DOMAIN replacements : SameAddress(attribute_value(event, "r"), key)

\* C21: a cell node read outside every suppressed region whose r attribute
\* decodes to the same (row, col) as a key of the replacement map is replaced,
\* whatever the letter case of the attribute text.
\* Refuted: the attribute text itself is looked up in the map, so r="a1" is
\* copied when the key is A1.
C21_DecodedAddressMatch ==
    Patching =>
        \A i \in Processed :
            ( /\ p_template[i].k \in {"Start", "Empty"}
              /\ DecodesToKey(p_template[i], p_repl)
              /\ i > 1 => DepthAfter(p_template, p_repl, i - 1) = 0 )
            => \E x \in OutputOf(i) : p_src[x] = 0 - i

-----------------------------------------------------------------------------
(* TemplateContext::load on its own: sheet tables and relationship tables *)

\* the number of sheet entries of a sheet table
MaxSheets == 2

N_AmpRaw == <<"A","&","a","m","p",";","B">>
N_Amp    == <<"A","&","B">>

\* the forms a sheet entry of the workbook is drawn from
SheetForms ==
    { <<SheetElement(N_Data, <<"1">>, RId(<<"1">>))>>,
      <<SheetElement(N_Data, <<"2">>, RId(<<"2">>))>>,
      <<SheetElement(N_data, <<"1">>, RId(<<"1">>))>>,
      <<SheetElement(N_Other, <<"2">>, RId(<<"2">>))>>,
      \* the relationship is the styles part, or does not exist
      <<SheetElement(N_Data, <<"3">>, RId(<<"3">>))>>,
      <<SheetElement(N_Data, <<"5">>, RId(<<"5">>))>>,
      \* <sheet name="A&amp;B" .../>: the sheet named A&B
      <<SheetElement(N_AmpRaw, <<"1">>, RId(<<"1">>))>>,
      \* <sheet name="Data" ...></sheet>
      <<StartTag("sheet", <<Attr("name", N_Data), Attr("sheetId", <<"1">>),
                            Attr("r:id", RId(<<"1">>))>>), EndTag("sheet")>>,
      \* a sheet entry without r:id
      <<EmptyTag("sheet", <<Attr("name", N_Data), Attr("sheetId", <<"1">>)>>)>>,
      \* not well formed
      <<BadTok>> }

RECURSIVE SheetTables(_)
SheetTables(n) ==
    IF n = 0 THEN {<<>>}
    ELSE LET shorter == SheetTables(n - 1)
         IN  shorter \cup {table \o form : table \in shorter, form \in SheetForms}

WorkbookWith(table) ==
    <<XmlDecl, StartTag("workbook", <<>>), StartTag("sheets", <<>>)>>
    \o table \o <<EndTag("sheets"), EndTag("workbook")>>

\* relationship tables: those of the assembler's packages, one whose
\* worksheet relationship rId2 is written with a closing tag, one with a
\* relationship that has no Type
LoadRelationships ==
    {RelationshipsXml(OtherRelationships[others]) :
        others \in {"plain", "named", "external", "none"}}
    \cup { RelationshipsXml(
             <<StartTag("Relationship",
                   <<Attr("Id", RId(<<"2">>)), Attr("Type", T_Worksheet),
                     Attr("Target", <<"worksheets", "sheet2.xml">>)>>),
               EndTag("Relationship")>>),
           RelationshipsXml(
             <<EmptyTag("Relationship",
                   <<Attr("Id", RId(<<"2">>)),
                     Attr("Target", <<"worksheets", "sheet2.xml">>)>>)>>) }

\* the base package with another workbook and another relationship table
RECURSIVE WithEntry(_, _, _)
WithEntry(entries, name, data) ==
    IF entries = <<>> THEN <<>>
    ELSE <<IF Head(entries).name = name THEN Entry(name, data) ELSE Head(entries)>>
         \o WithEntry(Tail(entries), name, data)

LoadPackages ==
    { WithEntry(WithEntry(BasePackage, P_Workbook, WorkbookWith(table)),
                P_WorkbookRels, rels) :
        table \in SheetTables(MaxSheets), rels \in LoadRelationships }
    \cup {Without(BasePackage, P_Workbook)}

LoadInit ==
    /\ l_entries \in LoadPackages
    /\ l_sheet_name \in {N_Data, N_data, N_Amp}
    /\ l_context = NoContext
    /\ l_pc = "load"
    /\ AsmParked
    /\ PatchParked
    /\ VariantsParked
    /\ CodecParked
    /\ WizardParked
    /\ StepParked
    /\ TemplateParked

\* lines 599-641 of TemplateContext::load
LoadContext ==
    /\ l_pc = "load"
    /\ l_context' = TemplateContextLoad(l_entries, l_sheet_name)
    /\ l_pc' = "done"
    /\ UNCHANGED <<l_entries, l_sheet_name, rest_l>>

LoadNext == LoadContext

SpecLoad == LoadInit /\ [][LoadNext]_vars

\* the sheet entries a workbook declares: its sheet elements, in either form
DeclaredSheets(workbook_xml) ==
    {i \in DOMAIN workbook_xml :
        /\ workbook_xml[i].k \in {"Start", "Empty"}
        /\ workbook_xml[i].name = "sheet"
        /\ HasAttribute(workbook_xml[i], "name")}

\* the entries whose name, as an XML reader gives it, is the requested name
MatchingSheets(workbook_xml, sheet_name) ==
    {i \in DeclaredSheets(workbook_xml) :
        Unescape(LastAttribute(workbook_xml[i], "name")) = sheet_name}

\* the relationships of a table, in either form
RelationshipsOf(table) ==
    {i \in DOMAIN table :
        table[i].k \in {"Start", "Empty"} /\ table[i].name = "Relationship"}

\* the worksheet-typed relationships of a table with the given id
WorksheetRelationships(table, id) ==
    {i \in RelationshipsOf(table) :
        /\ HasAttribute(table[i], "Id") /\ LastAttribute(table[i], "Id") = id
        /\ HasAttribute(table[i], "Type")
        /\ EndsWithWorksheet(LastAttribute(table[i], "Type"))}

\* the workbook and the relationship table are there and can be read
Readable(entries) ==
    /\ HasEntry(entries, P_ContentTypes)
    /\ HasEntry(entries, P_Workbook)
    /\ HasEntry(entries, P_WorkbookRels)
    /\ WellFormed(GetEntry(entries, P_Workbook))
    /\ WellFormed(GetEntry(entries, P_WorkbookRels))
    /\ \A i \in RelationshipsOf(GetEntry(entries, P_WorkbookRels)) :
          \A key \in {"Id", "Target", "Type"} :
              HasAttribute(GetEntry(entries, P_WorkbookRels)[i], key)

\* C22: on a readable package, loading fails with the sheet-not-found error
\* exactly when no declared sheet has the requested name (compared case
\* sensitively); when one has, the sheet loaded is the target of a worksheet
\* relationship whose id is declared on a matching entry, and loading fails
\* with the relationship-missing error when no matching entry has one.
\* Refuted: the name is compared with the raw attribute text (A&amp;B is
\* not A&B), and only self-closed sheet and Relationship elements are read.
C22_SheetLookup ==
    (l_pc = "done" /\ Readable(l_entries)) =>
        LET workbook_xml == GetEntry(l_entries, P_Workbook)
            table == GetEntry(l_entries, P_WorkbookRels)
            matching == MatchingSheets(workbook_xml, l_sheet_name)
            linked == {<<i, j>> \in matching \X RelationshipsOf(table) :
                          /\ HasAttribute(workbook_xml[i], "r:id")
                          /\ j \in WorksheetRelationships(table,
                                       LastAttribute(workbook_xml[i], "r:id"))}
        IN  /\ (~l_context.ok /\ l_context.error = E_SheetNotFound) <=> matching = {}
            /\ (matching # {} /\ linked = {}) =>
                  (~l_context.ok /\ l_context.error = E_RelationshipMissing)
            /\ l_context.ok =>
                  \E pair \in linked :
                      l_context.template_sheet_xml =
                          GetEntry(l_entries,
                              <<"xl">> \o LastAttribute(table[pair[2]], "Target"))

-----------------------------------------------------------------------------
(* Claims about a run without replacements, checked under Spec *)

\* no mapping of the list takes a value from the row
NoValueFor(mappings, row_values) ==
    \A j \in DOMAIN mappings : mappings[j].column_index >= Len(row_values)

\* C23, as stated: with a template that loads, one row and an empty mapping
\* list, the run succeeds and produces one sheet whose body is the template
\* sheet's.
\* Refuted: an empty mapping list is rejected before the template is opened.
C23_EmptyMappingsRoundTrip ==
    (/\ Returned
     /\ Selected
     /\ Len(state.csv_rows) = 1
     /\ state.cell_mappings = <<>>
     /\ TemplateContextLoad(template_file, state.selected_sheet[1]).ok)
    => /\ result.ok
       /\ Len(sheet_exports) = 1
       /\ sheet_exports[1].data = TemplateBody

\* C23, amended: with one row and an empty mapping list the run fails with
\* "No column mappings configured."; with one row and a list of mappings
\* with addresses, none of which takes a value from the row, a run that
\* succeeds produces exactly one sheet, and its body, as generated and as
\* written to the package, is the template sheet's body unchanged.
C23_NoReplacementRoundTrip ==
    (Returned /\ Selected /\ Len(state.csv_rows) = 1) =>
        /\ state.cell_mappings = <<>> => result = Err(E_NoMappings)
        /\ ( /\ result.ok
             /\ state.cell_mappings # <<>>
             /\ NoValueFor(state.cell_mappings, state.csv_rows[1]) )
           => /\ result.count = 1
              /\ Len(sheet_exports) = 1
              /\ sheet_exports[1].data = TemplateBody
              /\ dest.complete =>
                    GetEntry(dest.entries, <<"xl">> \o sheet_exports[1].target)
                        = TemplateBody

\* one row and the mapping 2 -> A1: the sheet written is the template sheet
C23_Witness ==
    /\ pc = "done"
    /\ result.ok
    /\ dest.complete
    /\ Len(state.csv_rows) = 1
    /\ state.cell_mappings = <<CellMapping(2, A1)>>
    /\ Len(sheet_exports) = 1
    /\ GetEntry(dest.entries, <<"xl">> \o sheet_exports[1].target) = TemplateBody

-----------------------------------------------------------------------------
(* Claims about overflow in the codec, checked under SpecCodec *)

\* the mappings of a list whose column the row has
WithValue(mappings, row_values) ==
    SelectSeq(mappings, LAMBDA mapping : mapping.column_index < Len(row_values))

\* C24: for every address text parse_cell_reference returns, without
\* panicking and without an arithmetic overflow, None or an address;
\* encoding a decoded address does not overflow; and a mapping whose column
\* index is beyond the row changes nothing in the replacement map.
\* Refuted: col_index * 26 + v leaves the u32 range for a long run of
\* letters; the build panics or goes on with the wrapped column.
C24_NoOverflow ==
    /\ c_from = "text" =>
          /\ c_pc # "panicked"
          /\ c_pc = "done" =>
                /\ ~c_parsed.overflow
                /\ c_parsed.some => ~CellLabelOverflows(c_parsed.row, c_parsed.col)
    /\ \A mappings \in MappingLists, row_values \in {<<X(1)>>, <<X(1), Y(1)>>} :
          RowReplacements(mappings, row_values, NoReplacements)
              = RowReplacements(WithValue(mappings, row_values), row_values,
                                NoReplacements)

-----------------------------------------------------------------------------
(* The wizard: BulkSheetEditorApp::update over its step modules (main.rs,
   test_ui_module.rs, csv_import.rs). A frame carries at most one click. *)

\* main.rs lines 21-24: three TestUiModule steps, then the CsvImportModule
TestSteps == 3
StepCount == TestSteps + 1

\* the files the file dialog can return: one that read_csv_preview reads and
\* one it fails on
CsvFiles == {"good.csv", "bad.csv"}

Click(kind, step, path) == [kind |-> kind, step |-> step, path |-> path]
NoClick == Click("none", 0, "")

\* the step modules after BulkSheetEditorApp::new()
NewApp ==
    [completed |-> [i \in 1..TestSteps |-> FALSE],
     selected_file |-> <<>>, treat_first_row_as_headers |-> TRUE,
     last_error |-> <<>>, csv_preview |-> <<>>]

\* UiStepModule::is_complete of step step_nr (counted from 0)
is_complete(app, step_nr) ==
    IF step_nr < TestSteps THEN app.completed[step_nr + 1]
    ELSE app.csv_preview # <<>>

\* UiStepModule::reset of step step_nr
reset(app, step_nr) ==
    IF step_nr < TestSteps THEN [app EXCEPT !.completed[step_nr + 1] = FALSE]
    ELSE [app EXCEPT !.selected_file = <<>>, !.last_error = <<>>, !.csv_preview = <<>>]

\* the mutant resets the clicked step alone
ResetFrom_OnlyThis(app, step_nr) == reset(app, step_nr)

\* for remaining_step_nr in step_nr..len { reset() }
RECURSIVE ResetFrom(_, _)
ResetFrom(app, step_nr) ==
    IF step_nr >= StepCount THEN app
    ELSE ResetFrom(reset(app, step_nr), step_nr + 1)

\* CsvImportModule::load_preview; read_csv_preview is Ok for the file it can
\* read and Err for the other
load_preview(app) ==
    IF app.selected_file = <<>> THEN app
    ELSE IF app.selected_file[1] = "good.csv"
    THEN [app EXCEPT !.last_error = <<>>,
                     !.csv_preview = <<[path |-> app.selected_file[1],
                                        uses_headers |-> app.treat_first_row_as_headers]>>]
    ELSE [app EXCEPT !.last_error = <<"Failed to open CSV">>]

\* draw_ui of step step_nr under the click of the frame: the modules after
\* it, and whether the click met a widget it drew
draw_ui(app, step_nr, click) ==
    IF step_nr < TestSteps
    THEN IF ~app.completed[step_nr + 1] /\ click = Click("test", step_nr, "")
         THEN [app |-> [app EXCEPT !.completed[step_nr + 1] = TRUE], hit |-> TRUE]
         ELSE [app |-> app, hit |-> FALSE]
    ELSE CASE click.kind = "browse" ->
                [app |-> IF click.path = "" THEN app
                         ELSE load_preview([app EXCEPT !.selected_file = <<click.path>>]),
                 hit |-> TRUE]
           [] click.kind = "headers" ->
                [app |-> load_preview([app EXCEPT !.treat_first_row_as_headers =
                                                    ~app.treat_first_row_as_headers]),
                 hit |-> TRUE]
           [] click.kind = "reload" -> [app |-> load_preview(app), hit |-> TRUE]
           [] OTHER -> [app |-> app, hit |-> FALSE]

\* the for loop of update over the steps, from step step_nr on
RECURSIVE StepLoop(_, _, _, _)
StepLoop(step_nr, app, click, hit) ==
    IF step_nr >= StepCount THEN [app |-> app, hit |-> hit]
    ELSE LET is_previous_step_complete ==
                 step_nr = 0 \/ is_complete(app, step_nr - 1)
             pressed == is_complete(app, step_nr) /\ click = Click("reset", step_nr, "")
             after_button == IF pressed THEN ResetFrom(app, step_nr) ELSE app
             drawn == IF is_previous_step_complete
                      THEN draw_ui(after_button, step_nr, click)
                      ELSE [app |-> after_button, hit |-> FALSE]
         IN  StepLoop(step_nr + 1, drawn.app, click, hit \/ pressed \/ drawn.hit)

WizardInit ==
    /\ w_app = NewApp
    /\ w_dark = FALSE
    /\ w_click = NoClick
    /\ AsmParked
    /\ PatchParked
    /\ VariantsParked
    /\ CodecParked
    /\ LoadParked
    /\ StepParked
    /\ TemplateParked

\* a frame whose click meets a widget of the step list
Update(click) ==
    LET frame == StepLoop(0, w_app, click, FALSE)
    IN  /\ frame.hit
        /\ w_app' = frame.app
        /\ w_click' = click
        /\ UNCHANGED <<w_dark, rest_w>>

\* a frame with a click on the theme button
ToggleTheme ==
    /\ w_dark' = ~w_dark
    /\ w_app' = StepLoop(0, w_app, Click("theme", 0, ""), FALSE).app
    /\ w_click' = Click("theme", 0, "")
    /\ UNCHANGED rest_w

ClickReset == \E step_nr \in 0..(StepCount - 1) : Update(Click("reset", step_nr, ""))
ClickTest == \E step_nr \in 0..(TestSteps - 1) : Update(Click("test", step_nr, ""))
ClickBrowse == \E path \in CsvFiles \cup {""} : Update(Click("browse", 0, path))
ClickHeaders == Update(Click("headers", 0, ""))
ClickReload == Update(Click("reload", 0, ""))

WizardNext ==
    \/ ToggleTheme
    \/ ClickReset
    \/ ClickTest
    \/ ClickBrowse
    \/ ClickHeaders
    \/ ClickReload

SpecWizard == WizardInit /\ [][WizardNext]_vars

Steps == 0..(StepCount - 1)

\* C25: step completion is prefix-closed in every state; a step becomes
\* complete in a frame only if it is the first step or its predecessor was
\* complete; and a click on 'reset to this step' of step k leaves every step
\* from k on incomplete and every step before k as it was.
C25_PrefixClosed ==
    /\ [](\A i \in Steps : (i > 0 /\ is_complete(w_app, i)) => is_complete(w_app, i - 1))
    /\ [][\A i \in Steps :
            (~is_complete(w_app, i) /\ is_complete(w_app', i))
                => (i = 0 \/ is_complete(w_app, i - 1))]_vars
    /\ [][w_click'.kind = "reset" =>
            \A i \in Steps :
                IF i >= w_click'.step THEN ~is_complete(w_app', i)
                ELSE is_complete(w_app', i) = is_complete(w_app, i)]_vars

\* step 1 has been reset after the CSV step had been drawn and completed
C25_Witness ==
    /\ w_click = Click("reset", 1, "")
    /\ is_complete(w_app, 0)
    /\ \A i \in Steps : i >= 1 => ~is_complete(w_app, i)
    /\ ~w_app.treat_first_row_as_headers


-----------------------------------------------------------------------------
(* BulkCreateModule over several frames: draw_ui offers "Save as..." when
   validate_inputs returns Ok, the chosen path goes to generate_and_save, the
   wizard may reset the step, and the earlier steps change the shared inputs
   between frames. The archive that build_and_write writes is followed step by
   step in Spec; here a run is one step and only its result is kept. *)

\* Option<T>
None == <<>>
Some(value) == <<value>>

E_ImportCsv == "Import a CSV file before generating sheets."
E_SelectTemplate == "Select a template workbook and sheet."
E_AssignColumn == "Assign at least one CSV column to a template cell."

\* cell_mappings.iter().all(|mapping| mapping.cell_ref.trim().is_empty())
RECURSIVE AllBlank(_)
AllBlank(cell_mappings) ==
    \/ cell_mappings = <<>>
    \/ /\ IsBlank(Head(cell_mappings).cell_ref)
       /\ AllBlank(Tail(cell_mappings))

\* the mutant does not look at the mappings
validate_inputs_NoMappingCheck(st) ==
    IF st.csv_rows = <<>> THEN E_ImportCsv
    ELSE IF ~st.odf_path \/ st.selected_sheet = <<>> THEN E_SelectTemplate
    ELSE ""

\* lines 33-49: the reason validate_inputs returns, "" for Ok
validate_inputs(st) ==
    IF st.csv_rows = <<>> THEN E_ImportCsv
    ELSE IF ~st.odf_path \/ st.selected_sheet = <<>> THEN E_SelectTemplate
    ELSE IF AllBlank(st.cell_mappings) THEN E_AssignColumn
    ELSE ""

\* lines 98-119: the loop over the rows, from the exports made so far; a
\* relationship index past u32::MAX is noted and wraps
RECURSIVE ExportRows(_, _, _, _, _)
ExportRows(ctx, st, rel_index, exports, overflow) ==
    LET row_index == Len(exports)
        replacements == RowReplacements(NonBlankMappings(st.cell_mappings),
                            RowValues(st.csv_rows, row_index), NoReplacements)
        sheet_xml == update_sheet_xml(ctx.template_sheet_xml, replacements)
        next_index == IF rel_index = U32_MAX THEN <<"0">> ELSE DecSucc(rel_index)
    IN  IF row_index = Len(st.csv_rows)
        THEN [ok |-> TRUE, exports |-> exports, overflow |-> overflow]
        ELSE IF ~sheet_xml.ok
        THEN [ok |-> FALSE, exports |-> exports, overflow |-> overflow]
        ELSE ExportRows(ctx, st, next_index,
                 Append(exports, NextExport(ctx, st.selected_sheet[1], row_index,
                                            next_index, sheet_xml.data)),
                 overflow \/ rel_index = U32_MAX)

\* what the file system does to a run: nothing, File::create fails, a write fails
IoOutcomes == {"written", "create fails", "write fails"}

\* lines 121-129, 186-259: the end of the run, once the sheets are made
WriteSheets(ctx, rows, io) ==
    [overflow |-> rows.overflow,
     result |-> IF ~rows.ok THEN Err(E_Xml)
                ELSE IF io = "create fails" THEN Err(E_Io)
                ELSE IF ~ArchiveEntries(ctx, rows.exports).ok THEN Err(E_Xml)
                ELSE IF io = "write fails" THEN Err(E_Io)
                ELSE Ok(Len(rows.exports))]

\* lines 94-119: the run from the result of TemplateContext::load on
FromTemplate(st, loaded, io) ==
    IF ~loaded.ok THEN [result |-> Err(loaded.error), overflow |-> FALSE]
    ELSE WriteSheets(loaded,
                     ExportRows(loaded, st, loaded.next_relationship_index, <<>>, FALSE),
                     io)

\* lines 68-129, 186-259: the result of build_and_write on the shared state,
\* the archive at odf_path and the file system's outcome; overflow tells that
\* the run passed line 110 with next_rel_index at u32::MAX
build_and_write(st, package, io) ==
    IF InputError(st) # "" THEN [result |-> Err(InputError(st)), overflow |-> FALSE]
    ELSE FromTemplate(st, TemplateContextLoad(package, st.selected_sheet[1]), io)

\* the mutant forgets the earlier status when a run fails
generate_and_save_ClearsStatus(mod, st, path, outcome) ==
    IF outcome.ok
    THEN [module |-> [save_path |-> Some(path),
                      status_message |-> Some(StatusMessage(outcome.count)),
                      error_message |-> None],
          state |-> [st EXCEPT !.last_output_path = Some(path)]]
    ELSE [module |-> [mod EXCEPT !.error_message = Some(outcome.error),
                                 !.status_message = None],
          state |-> st]

\* lines 51-66: generate_and_save with the result of build_and_write
generate_and_save(mod, st, path, outcome) ==
    IF outcome.ok
    THEN [module |-> [save_path |-> Some(path),
                      status_message |-> Some(StatusMessage(outcome.count)),
                      error_message |-> None],
          state |-> [st EXCEPT !.last_output_path = Some(path)]]
    ELSE [module |-> [mod EXCEPT !.error_message = Some(outcome.error)],
          state |-> st]

\* lines 174-176: BulkCreateModule::is_complete
bulk_create_is_complete(st) == st.last_output_path # None

\* lines 27-31: BulkCreateModule::new
NewModule == [save_path |-> None, status_message |-> None, error_message |-> None]

\* the paths the save dialog may return
OutputPaths == {<<"o","u","t",".","x","l","s","x">>, <<"n","e","w",".","x","l","s","x">>}

\* the inputs the earlier steps may leave in the shared state, with the
\* archive at odf_path
StepPackages ==
    { BasePackage,
      Package("largest", "plain", FALSE, SheetBody),
      Package("plain", "plain", TRUE, BrokenSheetBody),
      Without(BasePackage, P_Sheet1) }
StepRows == { <<>>, <<<<X(1), Y(1)>>, <<X(2)>>>> }
StepMappings ==
    { <<>>,
      <<CellMapping(0, <<" ">>)>>,
      <<CellMapping(0, <<>>), CellMapping(1, A1)>> }
StepInputs ==
    { input \in [scenario : Scenarios, csv_rows : StepRows, cell_mappings : StepMappings] :
        input.scenario.package \in StepPackages }

WithInputs(st, input) ==
    [st EXCEPT !.csv_rows = input.csv_rows,
               !.odf_path = input.scenario.selection.odf_path,
               !.selected_sheet = input.scenario.selection.selected_sheet,
               !.cell_mappings = input.cell_mappings]

NoOperation == [kind |-> "none", path |-> <<>>, outcome |-> NoResult]

StepInit ==
    /\ \E input \in StepInputs :
          /\ s_state = WithInputs([csv_rows |-> <<>>, odf_path |-> FALSE,
                                   selected_sheet |-> <<>>, cell_mappings |-> <<>>,
                                   last_output_path |-> None], input)
          /\ s_template = input.scenario.package
    /\ s_module = NewModule
    /\ s_last = NoOperation
    /\ s_succeeded = FALSE
    /\ s_pc = "frames"
    /\ AsmParked
    /\ PatchParked
    /\ VariantsParked
    /\ CodecParked
    /\ LoadParked
    /\ WizardParked
    /\ TemplateParked

\* lines 140-167: validate_inputs returned Ok, the button was clicked and the
\* dialog returned path; generate_and_save takes the result of the run
SaveAs(path, io) ==
    /\ s_pc = "frames"
    /\ validate_inputs(s_state) = ""
    /\ \E run \in {build_and_write(s_state, s_template, io)} :
          /\ s_module' = generate_and_save(s_module, s_state, path, run.result).module
          /\ s_state' = generate_and_save(s_module, s_state, path, run.result).state
          /\ s_last' = [kind |-> "save", path |-> path, outcome |-> run.result]
          /\ s_succeeded' = (s_succeeded \/ run.result.ok)
    /\ UNCHANGED <<s_template, s_pc, rest_s>>

\* the same when the run passes line 110 with next_rel_index at u32::MAX in a
\* build with overflow checks: the addition panics
SaveAsPanics(path, io) ==
    /\ s_pc = "frames"
    /\ validate_inputs(s_state) = ""
    /\ build_and_write(s_state, s_template, io).overflow
    /\ s_pc' = "panicked"
    /\ s_last' = [kind |-> "panic", path |-> path, outcome |-> NoResult]
    /\ UNCHANGED <<s_module, s_state, s_succeeded, s_template, rest_s>>

\* lines 178-183: BulkCreateModule::reset
ResetStep ==
    /\ s_pc = "frames"
    /\ s_module' = NewModule
    /\ s_state' = [s_state EXCEPT !.last_output_path = None]
    /\ s_last' = [NoOperation EXCEPT !.kind = "reset"]
    /\ s_succeeded' = FALSE
    /\ UNCHANGED <<s_template, s_pc, rest_s>>

\* the earlier steps replace the CSV rows, the template, the sheet, the mappings
ChangeInputs(input) ==
    /\ s_pc = "frames"
    /\ s_state' = WithInputs(s_state, input)
    /\ s_state' # s_state \/ s_template # input.scenario.package
    /\ s_template' = input.scenario.package
    /\ s_last' = [NoOperation EXCEPT !.kind = "inputs"]
    /\ UNCHANGED <<s_module, s_succeeded, s_pc, rest_s>>

StepNext ==
    \/ \E path \in OutputPaths, io \in IoOutcomes : SaveAs(path, io)
    \/ \E path \in OutputPaths, io \in IoOutcomes : SaveAsPanics(path, io)
    \/ ResetStep
    \/ \E input \in StepInputs : ChangeInputs(input)

SpecStep == StepInit /\ [][StepNext]_vars


\* a step of the frames that was a call of generate_and_save
SaveStep == s_last'.kind = "save" /\ s_pc = "frames" /\ s_pc' = "frames"

\* C26: a failed generate_and_save changes nothing but error_message, so
\* save_path, status_message, last_output_path and is_complete are as before;
\* a successful one sets save_path and last_output_path to the chosen path,
\* sets the status message and clears error_message; and the step is
\* complete exactly when a generation has succeeded since the last reset.
C26_FailureKeepsSuccessSets ==
    /\ [](s_pc = "frames" => (bulk_create_is_complete(s_state) <=> s_succeeded))
    /\ [][SaveStep /\ ~s_last'.outcome.ok =>
            /\ s_state' = s_state
            /\ s_module' = [s_module EXCEPT !.error_message = Some(s_last'.outcome.error)]
            /\ bulk_create_is_complete(s_state') <=> bulk_create_is_complete(s_state)]_vars
    /\ [][SaveStep /\ s_last'.outcome.ok =>
            /\ s_module'.save_path = Some(s_last'.path)
            /\ s_state'.last_output_path = Some(s_last'.path)
            /\ s_module'.status_message = Some(StatusMessage(s_last'.outcome.count))
            /\ s_module'.error_message = None]_vars

\* a run has failed after another had succeeded: the path and the status of
\* the earlier run are still there
C26_Witness ==
    /\ s_pc = "frames"
    /\ s_last.kind = "save"
    /\ ~s_last.outcome.ok
    /\ s_module.error_message = Some(s_last.outcome.error)
    /\ s_module.save_path # None
    /\ s_module.save_path # Some(s_last.path)
    /\ s_module.status_message # None
    /\ s_state.last_output_path = s_module.save_path

TemplateMissingErrors ==
    {E_TemplateWorkbookMissing, E_TemplateSheetMissing, E_NoRows, E_NoMappings}

\* C27: where validate_inputs returns Ok, build_and_write on the same state
\* does not fail with the template-missing, sheet-missing, input-empty or
\* no-mappings error, whatever the file system does; and generate_and_save is
\* called only from a state where validate_inputs returns Ok.
C27_GateImpliesPreconditions ==
    /\ [](s_pc = "frames" /\ validate_inputs(s_state) = "" =>
            \A io \in IoOutcomes :
                build_and_write(s_state, s_template, io).result.error
                    \notin TemplateMissingErrors)
    /\ [][s_last'.kind \in {"save", "panic"} /\ s_last' # s_last =>
            validate_inputs(s_state) = ""]_vars

\* the gate was open and the run failed while loading the template
C27_Witness ==
    /\ s_pc = "frames"
    /\ s_last.kind = "save"
    /\ validate_inputs(s_state) = ""
    /\ s_last.outcome.error = E_SheetNotFound
    /\ s_module.error_message = Some(E_SheetNotFound)
    /\ s_module.save_path = None


-----------------------------------------------------------------------------
(* The cell nodes of a body *)

IsCellNode(tok) == tok.k \in {"Start", "Empty"} /\ tok.name = "c"

\* Option: the address a cell node carries
AddressOf(tok) == IF HasAttribute(tok, "r") THEN Some(attribute_value(tok, "r")) ELSE None

\* the addresses of the cell nodes of body from token k on, in document order
RECURSIVE CellNodes(_, _)
CellNodes(body, k) ==
    IF k > Len(body) THEN <<>>
    ELSE (IF IsCellNode(body[k]) THEN <<AddressOf(body[k])>> ELSE <<>>)
         \o CellNodes(body, k + 1)

\* the same for the cell nodes that do not lie inside a replaced cell
RECURSIVE OuterCellNodes(_, _, _)
OuterCellNodes(body, repl, k) ==
    IF k > Len(body) THEN <<>>
    ELSE (IF IsCellNode(body[k]) /\ ~Covered(body, repl, k)
          THEN <<AddressOf(body[k])>> ELSE <<>>)
         \o OuterCellNodes(body, repl, k + 1)

\* the keys of the map that no cell node of the template carries
AbsentKeys == {key \in DOMAIN p_repl :
                  \A k \in DOMAIN p_template :
                      IsCellNode(p_template[k]) => AddressOf(p_template[k]) # Some(key)}

\* no cell of the output carries the key, and no text of the output is its value
LeavesNoTrace(key) ==
    \A idx \in DOMAIN p_out :
        /\ IsCellNode(p_out[idx]) => AddressOf(p_out[idx]) # Some(key)
        /\ p_out[idx].k = "Text" => p_out[idx].text # xml_escape(p_repl[key])

\* C28 as stated: the output has the cell nodes of the template, one for one,
\* with the same addresses in the same order, and a replacement for an address
\* that no cell node of the template carries leaves neither a cell nor its
\* value in the output.
C28_SameCellNodes ==
    p_pc = "ok" =>
        /\ CellNodes(p_out, 1) = CellNodes(p_template, 1)
        /\ \A key \in AbsentKeys : LeavesNoTrace(key)

\* C28 amended: the output has the cell nodes of the template that do not lie
\* inside a replaced cell, one for one, with the same addresses in the same
\* order (the cell nodes inside a replaced cell are dropped with the rest of
\* its content), and a replacement for an address that no cell node of the
\* template carries leaves neither a cell nor its value in the output.
C28_SameOuterCellNodes ==
    p_pc = "ok" =>
        /\ CellNodes(p_out, 1) = OuterCellNodes(p_template, p_repl, 1)
        /\ \A key \in AbsentKeys : LeavesNoTrace(key)

\* a patched output in which one cell was replaced, another was copied, and
\* one key of the map had no cell
C28_Witness ==
    /\ p_pc = "ok"
    /\ ~ReturnsTemplate(p_repl)
    /\ AbsentKeys # {}
    /\ AbsentKeys # DOMAIN p_repl
    /\ \E k \in DOMAIN p_template : IsCellNode(p_template[k]) /\ Outside(p_template, p_repl, k)
    /\ Len(CellNodes(p_out, 1)) >= 2


-----------------------------------------------------------------------------
(* OdfTemplateModule over several frames: each action is one frame of draw_ui
   with one input of the user; the CSV step replaces csv_preview between
   frames. *)

\* char::to_uppercase for the characters of the model: an ASCII letter gives
\* its capital, a sharp s gives two characters
UpperChars(ch) ==
    IF ch = "ß" THEN <<"S","S">> ELSE <<to_ascii_uppercase(ch)>>

\* str::to_uppercase
RECURSIVE to_uppercase(_)
to_uppercase(text) ==
    IF text = <<>> THEN <<>> ELSE UpperChars(Head(text)) \o to_uppercase(Tail(text))

\* str::trim
RECURSIVE trim(_)
trim(text) ==
    IF text = <<>> THEN <<>>
    ELSE IF Head(text) = " " THEN trim(Tail(text))
    ELSE IF Last(text) = " " THEN trim(Front(text))
    ELSE text

A2 == <<"A","2">>
B2 == <<"B","2">>

\* lines 34-73: the sheets load_sample_template offers
SampleSheets ==
    << [name |-> "Template",
        cells |-> <<CellPreview(A1, "Project Name"), CellPreview(B1, "Owner"),
                    CellPreview(A2, "Description"), CellPreview(B2, "Pending")>>],
       [name |-> "Metadata",
        cells |-> <<CellPreview(A1, "Created"), CellPreview(B1, "Author"),
                    CellPreview(A2, "Tags")>>] >>

\* lines 28-77
load_sample_template(mod, st) ==
    [module |-> [mod EXCEPT !.available_sheets = SampleSheets,
                            !.status_message =
                                Some("Loaded example sheets. Choose the template sheet below.")],
     state |-> [st EXCEPT !.template_sheet_name = None,
                          !.template_cells = <<>>,
                          !.column_mappings = <<>>]]

\* the cells of the first sheet of that name, none when there is no such sheet
SheetCells(sheets, sheet_name) ==
    LET found == {i \in DOMAIN sheets : sheets[i].name = sheet_name}
    IN  IF found = {} THEN <<>>
        ELSE sheets[CHOOSE i \in found : \A j \in found : i <= j].cells

\* lines 79-88
current_sheet_cells(mod, st) ==
    IF st.template_sheet_name = None THEN <<>>
    ELSE SheetCells(mod.available_sheets, st.template_sheet_name[1])

\* lines 90-102
apply_sheet_selection(mod, st, sheet_name) ==
    [module |-> [mod EXCEPT !.status_message =
                     Some("Template sheet selected. Set up your column mappings.")],
     state |-> [st EXCEPT !.template_sheet_name = Some(sheet_name),
                          !.template_cells = SheetCells(mod.available_sheets, sheet_name),
                          !.column_mappings = <<>>]]

\* ColumnMapping with its label
LabelledMapping(column_index, column_label, cell_address) ==
    [column_index |-> column_index, column_label |-> column_label,
     cell_address |-> cell_address]

Said(mod, st, message) ==
    [module |-> [mod EXCEPT !.status_message = Some(message)], state |-> st,
     panics |-> FALSE]

\* the positions of the mappings for the address
MappedAt(column_mappings, cell_address) ==
    {i \in DOMAIN column_mappings : column_mappings[i].cell_address = cell_address}

\* the mutant pushes a mapping whether or not the address is mapped
add_mapping_AlwaysPushes(mod, st) ==
    IF st.csv_preview = None THEN Said(mod, st, "Import a CSV file first.")
    ELSE IF mod.pending_column = None THEN Said(mod, st, "Select a CSV column to map.")
    ELSE LET headers == st.csv_preview[1].headers
             column_index == mod.pending_column[1]
             cell_address == to_uppercase(trim(mod.pending_cell))
         IN  IF cell_address = <<>> THEN Said(mod, st, "Enter a cell address (e.g. A1).")
             ELSE IF \A i \in DOMAIN st.template_cells :
                         to_uppercase(st.template_cells[i].address) # cell_address
             THEN Said(mod, st, "Cell not present in the template preview.")
             ELSE IF column_index + 1 > Len(headers)
             THEN [module |-> mod, state |-> st, panics |-> TRUE]
             ELSE [module |-> [mod EXCEPT !.status_message = Some("Added mapping."),
                                          !.pending_cell = <<>>],
                   state |-> [st EXCEPT !.column_mappings =
                       Append(@, LabelledMapping(column_index, headers[column_index + 1],
                                               cell_address))],
                   panics |-> FALSE]

\* lines 104-148: add_mapping; panics tells that headers[column_index] was out
\* of range, and then module and state are as the panic found them
add_mapping(mod, st) ==
    IF st.csv_preview = None THEN Said(mod, st, "Import a CSV file first.")
    ELSE IF mod.pending_column = None THEN Said(mod, st, "Select a CSV column to map.")
    ELSE LET headers == st.csv_preview[1].headers
             column_index == mod.pending_column[1]
             cell_address == to_uppercase(trim(mod.pending_cell))
             existing == MappedAt(st.column_mappings, cell_address)
             first == CHOOSE i \in existing : \A j \in existing : i <= j
         IN  IF cell_address = <<>> THEN Said(mod, st, "Enter a cell address (e.g. A1).")
             ELSE IF \A i \in DOMAIN st.template_cells :
                         to_uppercase(st.template_cells[i].address) # cell_address
             THEN Said(mod, st, "Cell not present in the template preview.")
             ELSE IF existing # {}
             THEN IF column_index + 1 > Len(headers)
                  THEN [module |-> mod,
                        state |-> [st EXCEPT !.column_mappings[first].column_index =
                                                 column_index],
                        panics |-> TRUE]
                  ELSE [module |-> [mod EXCEPT !.status_message =
                                                   Some("Updated existing mapping."),
                                               !.pending_cell = <<>>],
                        state |-> [st EXCEPT
                            !.column_mappings[first].column_index = column_index,
                            !.column_mappings[first].column_label = headers[column_index + 1]],
                        panics |-> FALSE]
             ELSE IF column_index + 1 > Len(headers)
             THEN [module |-> mod, state |-> st, panics |-> TRUE]
             ELSE [module |-> [mod EXCEPT !.status_message = Some("Added mapping."),
                                          !.pending_cell = <<>>],
                   state |-> [st EXCEPT !.column_mappings =
                       Append(@, LabelledMapping(column_index, headers[column_index + 1],
                                               cell_address))],
                   panics |-> FALSE]

\* lines 18-26 and WorkflowState::default
NewTemplateModule ==
    [selected_file |-> None, available_sheets |-> <<>>, pending_cell |-> <<>>,
     pending_column |-> None, status_message |-> None]
NewWorkflowState ==
    [csv_preview |-> None, template_sheet_name |-> None, template_cells |-> <<>>,
     column_mappings |-> <<>>]

\* the previews the CSV step may leave, by their headers
CsvPreviews ==
    { [headers |-> <<"name", "owner">>],
      [headers |-> <<"id">>],
      [headers |-> <<>>] }

\* what the user may type into the cell field
PendingCells ==
    { <<>>, <<" ">>, <<" ", "a", "1", " ">>, B2, C9, <<"ß", "1">> }

TemplateFiles == {"a.ods", "b.fods"}

TemplateInit ==
    /\ t_state = NewWorkflowState
    /\ t_module = NewTemplateModule
    /\ t_last = "new"
    /\ t_pc = "frames"
    /\ AsmParked
    /\ PatchParked
    /\ VariantsParked
    /\ CodecParked
    /\ LoadParked
    /\ WizardParked
    /\ StepParked

\* lines 188-255: the frame is drawn as far as the mapping controls
MappingControlsShown ==
    /\ t_module.available_sheets # <<>>
    /\ t_state.template_sheet_name # None
    /\ current_sheet_cells(t_module, t_state) # <<>>
    /\ t_state.csv_preview # None

\* lines 167-174: a file is picked
Browse(path) ==
    /\ t_pc = "frames"
    /\ LET loaded == load_sample_template([t_module EXCEPT !.selected_file = Some(path)],
                                          t_state)
       IN  /\ t_module' = loaded.module
           /\ t_state' = loaded.state
    /\ t_last' = "browse"
    /\ UNCHANGED <<t_pc, rest_t>>

\* lines 175-181: the Clear button
ClearTemplate ==
    /\ t_pc = "frames"
    /\ t_module.selected_file # None
    /\ t_module' = [t_module EXCEPT !.selected_file = None, !.available_sheets = <<>>]
    /\ t_state' = [t_state EXCEPT !.template_sheet_name = None,
                                  !.template_cells = <<>>,
                                  !.column_mappings = <<>>]
    /\ t_last' = "clear"
    /\ UNCHANGED <<t_pc, rest_t>>

\* lines 197-218: a sheet is picked in the combo box
SelectSheet(sheet_nr) ==
    /\ t_pc = "frames"
    /\ sheet_nr \in DOMAIN t_module.available_sheets
    /\ LET sheet_name == t_module.available_sheets[sheet_nr].name
           applied == apply_sheet_selection(t_module, t_state, sheet_name)
       IN  IF Some(sheet_name) # t_state.template_sheet_name
           THEN t_module' = applied.module /\ t_state' = applied.state
           ELSE UNCHANGED <<t_module, t_state>>
    /\ t_last' = "select"
    /\ UNCHANGED <<t_pc, rest_t>>

\* lines 258-270: a column is picked in the combo box
SelectColumn(idx) ==
    /\ t_pc = "frames"
    /\ MappingControlsShown
    /\ idx < Len(t_state.csv_preview[1].headers)
    /\ t_module' = [t_module EXCEPT !.pending_column = Some(idx)]
    /\ t_last' = "column"
    /\ UNCHANGED <<t_state, t_pc, rest_t>>

\* lines 271-273: the cell field is edited
EditCell(text) ==
    /\ t_pc = "frames"
    /\ MappingControlsShown
    /\ t_module' = [t_module EXCEPT !.pending_cell = text]
    /\ t_last' = "cell"
    /\ UNCHANGED <<t_state, t_pc, rest_t>>

\* lines 274-276: the Add mapping button
AddMapping ==
    /\ t_pc = "frames"
    /\ MappingControlsShown
    /\ LET added == add_mapping(t_module, t_state)
       IN  /\ t_module' = added.module
           /\ t_state' = added.state
           /\ t_pc' = IF added.panics THEN "panicked" ELSE "frames"
           /\ t_last' = IF added.panics THEN "panic" ELSE "add"
    /\ UNCHANGED rest_t

\* lines 323-331: the Remove button of a mapping
RemoveMapping(mapping_nr) ==
    /\ t_pc = "frames"
    /\ MappingControlsShown
    /\ mapping_nr \in DOMAIN t_state.column_mappings
    /\ t_state' = [t_state EXCEPT !.column_mappings =
           SelectSeq(@, LAMBDA m : m.cell_address # t_state.column_mappings[mapping_nr].cell_address)]
    /\ t_last' = "remove"
    /\ UNCHANGED <<t_module, t_pc, rest_t>>

\* lines 339-348: OdfTemplateModule::reset
ResetTemplate ==
    /\ t_pc = "frames"
    /\ t_module' = NewTemplateModule
    /\ t_state' = [t_state EXCEPT !.template_sheet_name = None,
                                  !.template_cells = <<>>,
                                  !.column_mappings = <<>>]
    /\ t_last' = "reset"
    /\ UNCHANGED <<t_pc, rest_t>>

\* the CSV step stores another preview (csv_import.rs, line 39) or none (line 228)
ReplacePreview(preview) ==
    /\ t_pc = "frames"
    /\ t_state.csv_preview # preview
    /\ t_state' = [t_state EXCEPT !.csv_preview = preview]
    /\ t_last' = "preview"
    /\ UNCHANGED <<t_module, t_pc, rest_t>>

TemplateNext ==
    \/ \E path \in TemplateFiles : Browse(path)
    \/ ClearTemplate
    \/ \E sheet_nr \in 1..2 : SelectSheet(sheet_nr)
    \/ \E idx \in 0..1 : SelectColumn(idx)
    \/ \E text \in PendingCells : EditCell(text)
    \/ AddMapping
    \/ \E mapping_nr \in 1..4 : RemoveMapping(mapping_nr)
    \/ ResetTemplate
    \/ \E preview \in {None} \cup {Some(p) : p \in CsvPreviews} : ReplacePreview(preview)

SpecTemplate == TemplateInit /\ [][TemplateNext]_vars


\* the address the Add mapping button would map
PendingAddress == to_uppercase(trim(t_module.pending_cell))

NoTwoMappingsOfOneCell ==
    \A i, j \in DOMAIN t_state.column_mappings :
        t_state.column_mappings[i].cell_address = t_state.column_mappings[j].cell_address
            => i = j

MappingsNameSheetCells ==
    \A i \in DOMAIN t_state.column_mappings :
        LET address == t_state.column_mappings[i].cell_address
            cells == current_sheet_cells(t_module, t_state)
        IN  /\ address = to_uppercase(address)
            /\ \E k \in DOMAIN cells : cells[k].address = address

\* C29: column_mappings never holds two mappings of one cell address; every
\* mapping's address is upper-case and is the address of a cell of the
\* selected template sheet; an add_mapping for an address that is already
\* mapped puts the pending column into that mapping, where it is, and leaves
\* the other mappings and the length of the list as they were (and when it
\* returns, the mapping's label is the header of that column); and picking
\* another sheet or loading a template empties the list.
C29_MappingList ==
    /\ [](NoTwoMappingsOfOneCell /\ MappingsNameSheetCells)
    /\ [][/\ t_last' \in {"add", "panic"}
          /\ t_pc = "frames"
          /\ t_module.pending_column # None
          /\ MappedAt(t_state.column_mappings, PendingAddress) # {}
          => \E i \in MappedAt(t_state.column_mappings, PendingAddress) :
                LET column_index == t_module.pending_column[1]
                    headers == t_state.csv_preview[1].headers
                IN  t_state'.column_mappings =
                        [t_state.column_mappings EXCEPT
                            ![i].column_index = column_index,
                            ![i].column_label =
                                IF t_last' = "add" THEN headers[column_index + 1] ELSE @]
       ]_vars
    /\ [][\/ t_last' = "browse" /\ t_module' # t_module
          \/ t_last' = "select" /\ t_state'.template_sheet_name # t_state.template_sheet_name
          => t_state'.column_mappings = <<>>]_vars

\* two cells are mapped, and the first of them was mapped again, to another
\* column
C29_Witness ==
    /\ t_pc = "frames"
    /\ t_last = "add"
    /\ t_module.status_message = Some("Updated existing mapping.")
    /\ Len(t_state.column_mappings) = 2
    /\ t_state.column_mappings[1].cell_address = A1
    /\ t_state.column_mappings[1].column_index = 1
    /\ t_state.column_mappings[2].column_index = 0

\* C30: add_mapping never indexes the header list out of range, whatever the
\* pending column and the preview, a preview that was replaced by one with
\* fewer columns after the column was picked included: it never panics.
C30_NoOutOfRange == t_pc # "panicked"

====
